---- MODULE Spec2Model ----
(***************************************************************************)
(* Worker script generation (lib/sandbox/client.ts) and the invocation     *)
(* transport (SandboxClient.invokeFunction, the SSE invoke route and the   *)
(* deploy route) of the workers platform.                                  *)
(*                                                                         *)
(* Source text is a sequence of lexical tokens (words and the punctuation  *)
(* the export patterns look at); adjacent tokens stand for tokens that are *)
(* separated by the white space the patterns allow.  Process output is a   *)
(* sequence of one-character strings.                                      *)
(***************************************************************************)
EXTENDS Integers, Sequences, FiniteSets, TLC

VARIABLES
    \* ---- deploy operation (POST /api/workers) ----
    code,          \* body.code, a token sequence
    nameOk,        \* body.name is a non-empty string
    dpc,           \* position of the deploy handler
    functions,     \* functions returned by generateWorkerScript
    dresp,         \* response of the deploy handler: [status, error]
    sandboxes,     \* sandboxes created by createWorkerSnapshot
    sbStops,       \* sandbox.stop() calls made by createWorkerSnapshot
    snapshots,     \* snapshots taken
    workers,       \* worker records stored by db.createWorker
    \* ---- invocation (handleSSEInvocation / invokeFunction) ----
    behaviour,     \* what the invoked user function does
    pc,            \* position of invokeFunction
    procOut,       \* standard output of the process not yet delivered
    procErr,       \* standard error of the process not yet delivered
    exitCode,      \* exit status of the process (-1: not launched)
    nOut,          \* standard-output log entries delivered so far
    stdout,        \* the accumulated stdout buffer of invokeFunction
    waited,        \* command.wait() has resolved
    created,       \* Sandbox.create has resolved
    stopCalls,     \* sandbox.stop() calls made by invokeFunction
    outcome,       \* completion of invokeFunction: none / ok / err
    events,        \* SSE events enqueued on the response stream
    closed,        \* controller.close() has been called successfully
    cancelled,     \* the caller has disconnected (stream cancelled)
    hpc,           \* position of the stream's start() callback
    received,      \* log entries the iterator of command.logs() has yielded
    forwarded,     \* arguments of the onLog calls made by invokeFunction
    \* ---- one run of the generated script (node worker.js <name> <payload>) ----
    script,        \* its arguments, its registry, the user function and what it did
    \* ---- two concurrent calls of invokeFunction ----
    calls,         \* per call: position, snapshot, payload, its sandbox, the
                   \* entries given to its onLog, its completion
    boxes,         \* the sandboxes the provider has created, with their processes
    buffers,       \* the stdout buffers of the calls
    \* ---- the other parts of the program, each run on its own ----
    strip,         \* stripTypeScript: the source text and the text returned
    api,           \* the worker record, the clock and the requests answered
    poll,          \* one call of waitForDeployment
    task,          \* one run of deployWorkerAsync
    reader         \* the SSE reader of FunctionInvoker

deployVars == <<code, nameOk, dpc, functions, dresp, sandboxes, sbStops, snapshots, workers>>

invokeVars == <<behaviour, pc, procOut, procErr, exitCode, nOut, stdout, waited, created,
                stopCalls, outcome, events, closed, cancelled, hpc, received, forwarded>>

concVars == <<calls, boxes, buffers>>

auxVars == <<strip, api, poll, task, reader>>

vars == <<code, nameOk, dpc, functions, dresp, sandboxes, sbStops, snapshots, workers,
          behaviour, pc, procOut, procErr, exitCode, nOut, stdout, waited, created,
          stopCalls, outcome, events, closed, cancelled, hpc, received, forwarded,
          script, calls, boxes, buffers,
          strip, api, poll, task, reader>>

----------------------------------------------------------------------------
(* Bounds *)

\* Largest number of declaration segments in a submitted source text.
MaxDecls == 3

\* Largest number of log entries the standard output of one process is
\* delivered in.
MaxChunks == 2

----------------------------------------------------------------------------
(* Generic sequence helpers *)

RECURSIVE Flatten(_)
Flatten(ss) == IF ss = <<>> THEN <<>> ELSE Head(ss) \o Flatten(Tail(ss))

Range(s) == {s[i] : i \in 1..Len(s)}

\* Positions at which sub occurs in s (String.prototype.includes / indexOf).
Occurrences(s, sub) ==
    {i \in 1..(Len(s) - Len(sub) + 1) : SubSeq(s, i, i + Len(sub) - 1) = sub}

Includes(s, sub) ==
    LET n == Len(sub)
    IN  \E i \in 1..(Len(s) - n + 1) :
            /\ n = 0 \/ s[i] = sub[1]
            /\ SubSeq(s, i, i + n - 1) = sub

Min(S) == CHOOSE x \in S : \A y \in S : x <= y

Max(S) == CHOOSE x \in S : \A y \in S : x >= y

----------------------------------------------------------------------------
(* extractFunctionNames: three pattern scans over the source text *)

\* \w+ : a word token (anything but the punctuation tokens).
IsWord(t) == t \notin {"=", "(", ""}

\* The token at position i, "" past the end of the text.
At(src, i) == IF i >= 1 /\ i <= Len(src) THEN src[i] ELSE ""

NoMatch == [name |-> "", end |-> 0]

\* /export\s+(?:async\s+)?function\s+(\w+)\s*\(/ anchored at token i.
asyncFnRegex(src, i) ==
    IF At(src, i) = "export" /\ At(src, i + 1) = "async" /\ At(src, i + 2) = "function"
       /\ IsWord(At(src, i + 3)) /\ At(src, i + 4) = "("
    THEN [name |-> At(src, i + 3), end |-> i + 5]
    ELSE IF At(src, i) = "export" /\ At(src, i + 1) = "function"
            /\ IsWord(At(src, i + 2)) /\ At(src, i + 3) = "("
    THEN [name |-> At(src, i + 2), end |-> i + 4]
    ELSE NoMatch

\* /export\s+const\s+(\w+)\s*=\s*(?:async\s*)?\(/ anchored at token i.
arrowFnRegex(src, i) ==
    IF At(src, i) = "export" /\ At(src, i + 1) = "const" /\ IsWord(At(src, i + 2))
       /\ At(src, i + 3) = "=" /\ At(src, i + 4) = "async" /\ At(src, i + 5) = "("
    THEN [name |-> At(src, i + 2), end |-> i + 6]
    ELSE IF At(src, i) = "export" /\ At(src, i + 1) = "const" /\ IsWord(At(src, i + 2))
            /\ At(src, i + 3) = "=" /\ At(src, i + 4) = "("
    THEN [name |-> At(src, i + 2), end |-> i + 5]
    ELSE NoMatch

\* /export\s+const\s+(\w+)\s*=\s*(?:async\s+)?function/ anchored at token i.
constFnRegex(src, i) ==
    IF At(src, i) = "export" /\ At(src, i + 1) = "const" /\ IsWord(At(src, i + 2))
       /\ At(src, i + 3) = "=" /\ At(src, i + 4) = "async" /\ At(src, i + 5) = "function"
    THEN [name |-> At(src, i + 2), end |-> i + 6]
    ELSE IF At(src, i) = "export" /\ At(src, i + 1) = "const" /\ IsWord(At(src, i + 2))
            /\ At(src, i + 3) = "=" /\ At(src, i + 4) = "function"
    THEN [name |-> At(src, i + 2), end |-> i + 5]
    ELSE NoMatch

Forms == {1, 2, 3}

\* The three patterns in the order the code scans them.
MatchAt(form, src, i) ==
    CASE form = 1 -> asyncFnRegex(src, i)
      [] form = 2 -> arrowFnRegex(src, i)
      [] OTHER    -> constFnRegex(src, i)

\* while ((match = regex.exec(code)) !== null) push(match[1]): the leftmost
\* match at or after lastIndex, then on from the end of that match.
RECURSIVE ExecAll(_, _, _)
ExecAll(form, src, lastIndex) ==
    LET starts == {i \in lastIndex..Len(src) : MatchAt(form, src, i) # NoMatch}
    IN  IF starts = {} THEN <<>>
        ELSE LET m == MatchAt(form, src, Min(starts))
             IN  <<m.name>> \o ExecAll(form, src, m.end)

\* [...new Set(names)]: insertion order, first occurrence kept.
RECURSIVE SetOrder(_)
SetOrder(names) ==
    IF names = <<>> THEN <<>>
    ELSE LET rest == SetOrder(SubSeq(names, 1, Len(names) - 1))
             last == names[Len(names)]
         IN  IF last \in Range(rest) THEN rest ELSE Append(rest, last)

\* The scans in another order (arrow form first).
ScanOrderArrowFirst(src) ==
    ExecAll(2, src, 1) \o ExecAll(1, src, 1) \o ExecAll(3, src, 1)

ScanOrder(src) ==
    ExecAll(1, src, 1) \o ExecAll(2, src, 1) \o ExecAll(3, src, 1)

\* The pushes returned as they are, duplicates kept.
KeepDuplicates(src) == ScanOrder(src)

extractFunctionNames(src) == SetOrder(ScanOrder(src))

----------------------------------------------------------------------------
(* generateWorkerScript: the failure on an empty manifest *)

NoExportsError == "No exported functions found in worker code"

\* The empty-manifest check left out.
GenerateNoCheck(src) ==
    [ok |-> TRUE, functions |-> extractFunctionNames(src), error |-> ""]

generateWorkerScript(src) ==
    LET functionNames == extractFunctionNames(src)
    IN  IF Len(functionNames) = 0
        THEN [ok |-> FALSE, functions |-> <<>>, error |-> NoExportsError]
        ELSE [ok |-> TRUE, functions |-> functionNames, error |-> ""]

----------------------------------------------------------------------------
(* Submitted source texts *)

Names == {"a", "b"}

\* One top-level piece of source text, as tokens.
FnDecl(n)       == <<"export", "function", n, "(">>
AsyncFnDecl(n)  == <<"export", "async", "function", n, "(">>
Arrow(n)        == <<"export", "const", n, "=", "(">>
AsyncArrow(n)   == <<"export", "const", n, "=", "async", "(">>
ConstFn(n)      == <<"export", "const", n, "=", "function">>
AsyncConstFn(n) == <<"export", "const", n, "=", "async", "function">>

Segments ==
    {FnDecl(n) : n \in Names}
    \cup {Arrow("a"), ConstFn("a"), AsyncFnDecl("a"), AsyncArrow("b"), AsyncConstFn("b")}
    \cup { <<"function", "a", "(">>,                        \* not exported
           <<"export", "const", "a", "=", "1">>,             \* exported value
           <<"export", "default", "function", "b", "(">> }   \* default export

Sources ==
    {Flatten(ss) : ss \in UNION {[1..n -> Segments] : n \in 0..MaxDecls}}

----------------------------------------------------------------------------
(* POST /api/workers: deploy *)

NoResp == [status |-> 0, error |-> ""]

InitDeployVars ==
    /\ code \in Sources
    /\ nameOk \in BOOLEAN
    /\ dpc = "request"
    /\ functions = <<>>
    /\ dresp = NoResp
    /\ sandboxes = 0
    /\ sbStops = 0
    /\ snapshots = 0
    /\ workers = 0

IdleDeployVars ==
    /\ code = <<>>
    /\ nameOk = FALSE
    /\ dpc = "idle"
    /\ functions = <<>>
    /\ dresp = NoResp
    /\ sandboxes = 0
    /\ sbStops = 0
    /\ snapshots = 0
    /\ workers = 0

\* The handler from request.json() to the first await of createWorkerSnapshot:
\* validation of name and code, then generateWorkerScript.
DeployPost ==
    /\ dpc = "request"
    /\ IF ~nameOk
       THEN /\ dresp' = [status |-> 400, error |-> "Worker name is required"]
            /\ dpc' = "done"
            /\ UNCHANGED functions
       ELSE IF code = <<>>
       THEN /\ dresp' = [status |-> 400, error |-> "Worker code is required"]
            /\ dpc' = "done"
            /\ UNCHANGED functions
       ELSE LET gen == generateWorkerScript(code)
            IN  IF ~gen.ok
                THEN /\ dresp' = [status |-> 500, error |-> gen.error]
                     /\ dpc' = "done"
                     /\ UNCHANGED functions
                ELSE /\ functions' = gen.functions
                     /\ dpc' = "create"
                     /\ UNCHANGED dresp
    /\ UNCHANGED <<code, nameOk, sandboxes, sbStops, snapshots, workers>>
    /\ UNCHANGED <<invokeVars, script, concVars, auxVars>>

\* createWorkerSnapshot: await Sandbox.create({ runtime: 'node24' })
SnapshotSandboxCreated ==
    /\ dpc = "create"
    /\ sandboxes' = sandboxes + 1
    /\ dpc' = "write"
    /\ UNCHANGED <<code, nameOk, functions, dresp, sbStops, snapshots, workers>>
    /\ UNCHANGED <<invokeVars, script, concVars, auxVars>>

\* Sandbox.create rejects: outside the try block, nothing to clean up.
SnapshotSandboxCreateFails ==
    /\ dpc = "create"
    /\ dresp' = [status |-> 500, error |-> "sandbox create failed"]
    /\ dpc' = "done"
    /\ UNCHANGED <<code, nameOk, functions, sandboxes, sbStops, snapshots, workers>>
    /\ UNCHANGED <<invokeVars, script, concVars, auxVars>>

\* await sandbox.writeFiles([worker.js, manifest.json])
WriteFilesDone ==
    /\ dpc = "write"
    /\ dpc' = "snapshot"
    /\ UNCHANGED <<code, nameOk, functions, dresp, sandboxes, sbStops, snapshots, workers>>
    /\ UNCHANGED <<invokeVars, script, concVars, auxVars>>

WriteFilesFails ==
    /\ dpc = "write"
    /\ dresp' = [status |-> 0, error |-> "write files failed"]
    /\ dpc' = "cleanup"
    /\ UNCHANGED <<code, nameOk, functions, sandboxes, sbStops, snapshots, workers>>
    /\ UNCHANGED <<invokeVars, script, concVars, auxVars>>

\* await sandbox.snapshot(), then the result is returned to the handler
SnapshotTaken ==
    /\ dpc = "snapshot"
    /\ snapshots' = snapshots + 1
    /\ dpc' = "store"
    /\ UNCHANGED <<code, nameOk, functions, dresp, sandboxes, sbStops, workers>>
    /\ UNCHANGED <<invokeVars, script, concVars, auxVars>>

SnapshotFails ==
    /\ dpc = "snapshot"
    /\ dresp' = [status |-> 0, error |-> "snapshot failed"]
    /\ dpc' = "cleanup"
    /\ UNCHANGED <<code, nameOk, functions, sandboxes, sbStops, snapshots, workers>>
    /\ UNCHANGED <<invokeVars, script, concVars, auxVars>>

\* The catch block as if it rethrew without stopping the sandbox.
SnapshotCleanupNoStop ==
    /\ dpc = "cleanup"
    /\ dresp' = [status |-> 500, error |-> dresp.error]
    /\ dpc' = "done"
    /\ UNCHANGED <<code, nameOk, functions, sandboxes, sbStops, snapshots, workers>>
    /\ UNCHANGED <<invokeVars, script, concVars, auxVars>>

\* catch (error) { await sandbox.stop(); throw error; } and the handler's catch
SnapshotCleanup ==
    /\ dpc = "cleanup"
    /\ sbStops' = sbStops + 1
    /\ dresp' = [status |-> 500, error |-> dresp.error]
    /\ dpc' = "done"
    /\ UNCHANGED <<code, nameOk, functions, sandboxes, snapshots, workers>>
    /\ UNCHANGED <<invokeVars, script, concVars, auxVars>>

\* await db.createWorker({...}), then the 201 response
WorkerStored ==
    /\ dpc = "store"
    /\ workers' = workers + 1
    /\ dresp' = [status |-> 201, error |-> ""]
    /\ dpc' = "done"
    /\ UNCHANGED <<code, nameOk, functions, sandboxes, sbStops, snapshots>>
    /\ UNCHANGED <<invokeVars, script, concVars, auxVars>>

WorkerStoreFails ==
    /\ dpc = "store"
    /\ dresp' = [status |-> 500, error |-> "database insert failed"]
    /\ dpc' = "done"
    /\ UNCHANGED <<code, nameOk, functions, sandboxes, sbStops, snapshots, workers>>
    /\ UNCHANGED <<invokeVars, script, concVars, auxVars>>

\* The generated script is not being run on its own.
IdleScript == script = [ran |-> FALSE]

\* No concurrent calls are under way.
IdleCalls == calls = <<>> /\ boxes = <<>> /\ buffers = <<>>

\* None of the other parts is being run.
IdleAux == strip = <<>> /\ api = <<>> /\ poll = <<>> /\ task = <<>> /\ reader = <<>>

IdleInvokeVars ==
    /\ behaviour = [kind |-> "none"]
    /\ pc = "idle"
    /\ procOut = <<>>
    /\ procErr = <<>>
    /\ exitCode = -1
    /\ nOut = 0
    /\ stdout = <<>>
    /\ waited = FALSE
    /\ created = FALSE
    /\ stopCalls = 0
    /\ outcome = [type |-> "none"]
    /\ events = <<>>
    /\ closed = FALSE
    /\ cancelled = FALSE
    /\ hpc = "idle"
    /\ received = <<>>
    /\ forwarded = <<>>

InitDeploy == InitDeployVars /\ IdleInvokeVars /\ IdleScript /\ IdleCalls /\ IdleAux

NextDeploy ==
    \/ DeployPost
    \/ SnapshotSandboxCreated
    \/ SnapshotSandboxCreateFails
    \/ WriteFilesDone
    \/ WriteFilesFails
    \/ SnapshotTaken
    \/ SnapshotFails
    \/ SnapshotCleanup
    \/ WorkerStored
    \/ WorkerStoreFails

SpecDeploy == InitDeploy /\ [][NextDeploy]_vars

----------------------------------------------------------------------------
(* Properties of the extractor and of the deploy operation (SpecDeploy) *)

\* The starts of the matches of one export form in a source text.
MatchStarts(form, src) == {i \in 1..Len(src) : MatchAt(form, src, i) # NoMatch}

\* The names some export form declares in a source text.
ExportedNames(src) ==
    {MatchAt(form, src, i).name : <<form, i>> \in {<<f, j>> \in Forms \X (1..Len(src)) :
                                                      MatchAt(f, src, j) # NoMatch}}

\* Where a name is first declared, by any form / by one form.
FirstAppearance(n, src) ==
    Min({i \in 1..Len(src) : \E form \in Forms : MatchAt(form, src, i).name = n})

FirstAppearanceBy(form, n, src) ==
    Min({i \in 1..Len(src) : MatchAt(form, src, i).name = n})

\* The first form, in scan order, that declares a name.
FirstForm(n, src) ==
    Min({form \in Forms : \E i \in 1..Len(src) : MatchAt(form, src, i).name = n})

\* generateWorkerScript has returned a manifest for the submitted code.
Generated == dpc \notin {"request", "idle"} /\ functions # <<>>

\* C1 (as stated): the names come in the order of their first appearance in
\* the source text, whichever export form declared them.
C1_FirstAppearanceOrder ==
    Generated =>
        /\ Range(functions) = ExportedNames(code)
        /\ \A i, j \in 1..Len(functions) :
               i < j => FirstAppearance(functions[i], code) < FirstAppearance(functions[j], code)

\* C1 (amended): the result holds exactly the exported names, ordered first by
\* the export form that first declares the name in scan order (function
\* declarations, then arrow constants, then function-expression constants)
\* and, within one form, by first appearance in the source text.
C1_ScanThenAppearanceOrder ==
    Generated =>
        /\ Range(functions) = ExportedNames(code)
        /\ \A i, j \in 1..Len(functions) :
               i < j =>
                   LET fi == FirstForm(functions[i], code)
                       fj == FirstForm(functions[j], code)
                   IN  \/ fi < fj
                       \/ /\ fi = fj
                          /\ FirstAppearanceBy(fi, functions[i], code)
                                 < FirstAppearanceBy(fj, functions[j], code)

\* An arrow-form export written before a function-declaration export, and
\* the manifest returned for it.
C1_Witness ==
    /\ Generated
    /\ \E i \in MatchStarts(2, code), j \in MatchStarts(1, code) :
           /\ i < j
           /\ MatchAt(2, code, i).name # MatchAt(1, code, j).name
           /\ FirstAppearance(MatchAt(2, code, i).name, code) = i

\* C2: the list returned by extractFunctionNames holds no name twice.
C2_NoDuplicateNames ==
    Generated =>
        \A i, j \in 1..Len(functions) : i # j => functions[i] # functions[j]

\* One name declared by two different forms and twice by one form, and the
\* manifest returned for it.
C2_Witness ==
    /\ Generated
    /\ \E n \in Names :
           /\ Cardinality({form \in Forms : \E i \in 1..Len(code) :
                               MatchAt(form, code, i).name = n}) >= 2
           /\ \E form \in Forms :
                  Cardinality({i \in 1..Len(code) : MatchAt(form, code, i).name = n}) >= 2

\* No export form matches anywhere in the text.
NoExportForm(src) == \A form \in Forms : MatchStarts(form, src) = {}

\* C3: for a source text in which no export form matches, generation fails
\* with the 'No exported functions found' error, and the deploy operation
\* creates no sandbox, takes no snapshot and stores no worker record.
C3_NoExportsNoDeploy ==
    NoExportForm(code) =>
        /\ sandboxes = 0 /\ snapshots = 0 /\ workers = 0
        /\ dpc \in {"request", "done", "idle"}
        /\ (dpc = "done" /\ nameOk /\ code # <<>>) =>
               dresp = [status |-> 500, error |-> NoExportsError]

\* A deploy request with a name and a non-empty text without exports has
\* been answered.
C3_Witness ==
    /\ dpc = "done"
    /\ nameOk
    /\ code # <<>>
    /\ NoExportForm(code)
    /\ dresp.status = 500

----------------------------------------------------------------------------
(* JSON values and their text *)

JNum(n)    == [t |-> "number", n |-> n]
JStr(str)  == [t |-> "string", s |-> str]
JTrue      == [t |-> "true"]
JFalse     == [t |-> "false"]
JNull      == [t |-> "null"]
JObj(f)    == [t |-> "object", f |-> f]
JArr(a)    == [t |-> "array", a |-> a]
\* The JavaScript value undefined (no JSON text stands for it).
JUndefined == [t |-> "undefined"]

\* The characters of a string, as a sequence of one-character strings.
CharsOf(str) == [i \in 1..Len(str) |-> SubSeq(str, i, i)]

Digits == <<"0", "1", "2", "3", "4", "5", "6", "7", "8", "9">>

\* JSON.stringify(value) as it appears inside a string concatenation:
\* JSON.stringify(undefined) is undefined, and '...' + undefined is the
\* text "undefined".
RECURSIVE JSONstringify(_)
RECURSIVE StringifyMembers(_)
RECURSIVE StringifyElements(_)
StringifyElements(a) ==
    IF a = <<>> THEN <<>>
    ELSE JSONstringify(a[1])
         \o (IF Len(a) > 1 THEN <<",">> \o StringifyElements(Tail(a)) ELSE <<>>)

StringifyMembers(f) ==
    IF f = <<>> THEN <<>>
    ELSE <<"\"">> \o CharsOf(f[1].k) \o <<"\"", ":">> \o JSONstringify(f[1].v)
         \o (IF Len(f) > 1 THEN <<",">> \o StringifyMembers(Tail(f)) ELSE <<>>)

JSONstringify(v) ==
    CASE v.t = "number"    -> <<Digits[v.n + 1]>>
      [] v.t = "string"    -> <<"\"">> \o CharsOf(v.s) \o <<"\"">>
      [] v.t = "true"      -> <<"t", "r", "u", "e">>
      [] v.t = "false"     -> <<"f", "a", "l", "s", "e">>
      [] v.t = "null"      -> <<"n", "u", "l", "l">>
      [] v.t = "object"    -> <<"{">> \o StringifyMembers(v.f) \o <<"}">>
      [] v.t = "array"     -> <<"[">> \o StringifyElements(v.a) \o <<"]">>
      [] v.t = "undefined" -> <<"u", "n", "d", "e", "f", "i", "n", "e", "d">>

\* { __error: true, message: m }
ErrorEnvelope(m) ==
    JObj(<<[k |-> "__error", v |-> JTrue], [k |-> "message", v |-> JStr(m)]>>)

\* { __error: false }: an object of the user's own that has the key __error
OwnErrorField == JObj(<<[k |-> "__error", v |-> JFalse]>>)

\* What the user function of a worker returns (JUndefined: it returns no
\* value) or throws.
ReturnValues  == {JNum(1), JObj(<<>>), JUndefined}
ThrowMessages == {"boom", ""}

\* The text of the transport's own error, thrown by a user function.
ThrownNoResult == "Function did not return a result"

\* The JSON values whose text JSON.parse is given to read in this model.
JsonValues ==
    {JNum(1), JNum(2), JNull, JTrue, JObj(<<>>), OwnErrorField, JStr("a"),
     JArr(<<JNum(1), JNull>>)}
    \cup {ErrorEnvelope(m) : m \in ThrowMessages \cup {"Error", ThrownNoResult}}

WhiteSpace == {"\n", " "}

\* String.prototype.trimEnd
RECURSIVE trimEnd(_)
trimEnd(text) ==
    IF text # <<>> /\ text[Len(text)] \in WhiteSpace
    THEN trimEnd(SubSeq(text, 1, Len(text) - 1))
    ELSE text

RECURSIVE trimStart(_)
trimStart(text) ==
    IF text # <<>> /\ text[1] \in WhiteSpace THEN trimStart(Tail(text)) ELSE text

\* JSON.parse(text): white space around the value is skipped; a text that is
\* the JSON text of no value throws a SyntaxError.
JSONparse(text) ==
    LET body == trimStart(trimEnd(text))
        vs   == {v \in JsonValues : JSONstringify(v) = body}
    IN  IF vs = {} THEN [ok |-> FALSE, value |-> JUndefined]
        ELSE [ok |-> TRUE, value |-> CHOOSE v \in vs : TRUE]

----------------------------------------------------------------------------
(* The generated worker script: main() *)

ResultMarker == <<"_", "_", "R", "E", "S", "U", "L", "T", "_", "_">>
EndMarker    == <<"_", "_", "E", "N", "D", "_", "R", "E", "S", "U", "L", "T", "_", "_">>
NewLine      == <<"\n">>

\* console.log(line) for each line the user function prints.
RECURSIVE ConsoleLog(_)
ConsoleLog(lines) ==
    IF lines = <<>> THEN <<>>
    ELSE CharsOf(Head(lines)) \o NewLine \o ConsoleLog(Tail(lines))

\* '__RESULT__' + JSON.stringify(value) + '__END_RESULT__', one console.log
MarkerLine(v) == ResultMarker \o JSONstringify(v) \o EndMarker \o NewLine

\* error.message || String(error) for an Error with message m:
\* String(new Error('')) is 'Error'.
ErrorMessageOrString(m) == IF m = "" THEN "Error" ELSE m

FunctionErrorPrefix ==
    <<"F", "u", "n", "c", "t", "i", "o", "n", " ", "e", "r", "r", "o", "r", ":", " ">>

\* The ways the user function of a known name behaves: it prints some lines,
\* then returns a value, throws an Error, ends the process itself, or the
\* process is killed while the marker line is being written; or it writes a
\* marker line to the error channel with console.error and ends the process.
PlainLines == {<<>>, <<"a">>, <<"a", "b">>}

\* Lines a user function prints that hold the text of a marker.
MarkerTextLines == {<<"__RESULT__">>, <<"__END_RESULT__">>}

Behaviours ==
    [kind : {"return"}, value : ReturnValues, message : {""}, lines : PlainLines]
    \cup [kind : {"throw"}, value : {JUndefined}, message : {"boom"},
          lines : {<<>>, <<"a">>}]
    \cup [kind : {"throw"}, value : {JUndefined}, message : {""}, lines : {<<>>}]
    \cup [kind : {"exit", "killed"}, value : {JNum(1)}, message : {""}, lines : PlainLines]
    \cup [kind : {"errmarker"}, value : {JNum(1)}, message : {""}, lines : {<<>>}]

\* More of what a user function does, for the runs of the script on its own:
\* it returns a string, null, an array or an object with a key '__error',
\* prints the text of a marker before it returns, or throws the text of the
\* transport's own error.
ScriptBehaviours ==
    Behaviours
    \cup [kind : {"return"}, value : {JStr("a"), JNull, JArr(<<JNum(1), JNull>>), OwnErrorField},
          message : {""}, lines : {<<>>, <<"a">>}]
    \cup [kind : {"return"}, value : {JNum(1)}, message : {""}, lines : MarkerTextLines]
    \cup [kind : {"throw"}, value : {JUndefined}, message : {ThrownNoResult},
          lines : {<<>>, <<"a">>}]

\* The try block as if the catch block wrote no marker line.
MainNoErrorMarker(b) ==
    IF b.kind = "return"
    THEN [out |-> ConsoleLog(b.lines) \o MarkerLine(b.value), err |-> <<>>, exit |-> 0]
    ELSE [out |-> ConsoleLog(b.lines), err |-> <<>>, exit |-> 1]

\* main() of the generated script for a function of the registry: what the
\* process writes on each channel and its exit status.  The line on the
\* error channel is given as 'Function error: ' and the reported text (for
\* an empty message console.error prints the Error object itself).
main(b) ==
    CASE b.kind = "return" ->
            [out  |-> ConsoleLog(b.lines) \o MarkerLine(b.value),
             err  |-> <<>>,
             exit |-> 0]
      [] b.kind = "throw" ->
            [out  |-> ConsoleLog(b.lines)
                        \o MarkerLine(ErrorEnvelope(ErrorMessageOrString(b.message))),
             err  |-> FunctionErrorPrefix \o CharsOf(ErrorMessageOrString(b.message))
                        \o NewLine,
             exit |-> 1]
      [] b.kind = "exit" ->
            [out |-> ConsoleLog(b.lines), err |-> <<>>, exit |-> 0]
      [] b.kind = "killed" ->
            [out  |-> ConsoleLog(b.lines) \o ResultMarker \o JSONstringify(b.value),
             err  |-> <<>>,
             exit |-> 137]
      [] b.kind = "errmarker" ->
            [out |-> ConsoleLog(b.lines), err |-> MarkerLine(b.value), exit |-> 0]

\* The members every object literal inherits from Object.prototype that the
\* runs of this model ask for by name.
InheritedKeys == {"constructor", "toString"}

\* functions[functionName] on the registry object literal: the user function
\* when the name is a key of the registry, else what the prototype chain
\* gives (Object for 'constructor', Object.prototype.toString for
\* 'toString'), else undefined.
Lookup(registry, name) ==
    IF name \in Range(registry) THEN "user"
    ELSE IF name \in InheritedKeys THEN name
    ELSE "undefined"

UsageText == "Usage: node worker.js <functionName> [payloadJson]"

RECURSIVE JoinNames(_)
\* Object.keys(functions).join(', ')
JoinNames(registry) ==
    IF registry = <<>> THEN <<>>
    ELSE IF Len(registry) = 1 THEN CharsOf(registry[1])
    ELSE CharsOf(registry[1]) \o <<",", " ">> \o JoinNames(Tail(registry))

NotFoundText(registry, name) ==
    CharsOf("Function '") \o CharsOf(name) \o CharsOf("' not found. Available: ")
        \o JoinNames(registry)

\* The message of the SyntaxError JSON.parse throws for the payload text.
PayloadSyntaxError == "Unexpected end of JSON input"

\* The result of Object.prototype.toString called with no receiver.
ObjectUndefined == "[object Undefined]"

\* The catch block of main() for an error with message m that did not come
\* from a user function.
Caught(m) ==
    [out    |-> MarkerLine(ErrorEnvelope(ErrorMessageOrString(m))),
     err    |-> FunctionErrorPrefix \o CharsOf(ErrorMessageOrString(m)) \o NewLine,
     exit   |-> 1,
     called |-> "none"]

\* main() of the generated script run as
\*     node worker.js <functionName> <payloadJson>
\* with the given registry; b is what the user function does when it is the
\* one called.  A missing argument is the empty text.  'called' names the
\* function main() called.
scriptMain(functionName, payloadJson, registry, b) ==
    IF functionName = ""
    THEN [out |-> <<>>, err |-> CharsOf(UsageText) \o NewLine, exit |-> 1,
          called |-> "none"]
    ELSE LET func == Lookup(registry, functionName)
         IN  IF func = "undefined"
             THEN [out |-> <<>>, err |-> NotFoundText(registry, functionName) \o NewLine,
                   exit |-> 1, called |-> "none"]
             ELSE LET payload == JSONparse(IF payloadJson = <<>>
                                           THEN <<"{", "}">>
                                           ELSE payloadJson)
                  IN  IF ~payload.ok THEN Caught(PayloadSyntaxError)
                      ELSE CASE func = "user" ->
                                   [out    |-> main(b).out,
                                    err    |-> main(b).err,
                                    exit   |-> main(b).exit,
                                    called |-> "user"]
                             [] func = "constructor" ->
                                   \* Object(payload) is the payload
                                   [out    |-> MarkerLine(payload.value),
                                    err    |-> <<>>,
                                    exit   |-> 0,
                                    called |-> "Object"]
                             [] func = "toString" ->
                                   [out    |-> MarkerLine(JStr(ObjectUndefined)),
                                    err    |-> <<>>,
                                    exit   |-> 0,
                                    called |-> "Object.prototype.toString"]

----------------------------------------------------------------------------
(* SandboxClient.invokeFunction *)

None    == [type |-> "none", result |-> JUndefined, message |-> ""]
Ok(v)   == [type |-> "ok", result |-> v, message |-> ""]
Err(m)  == [type |-> "err", result |-> JUndefined, message |-> m]

NoResultError   == "Function did not return a result"
SyntaxError     == "SyntaxError: not valid JSON"
CreateError     == "Sandbox.create failed"
LaunchError     == "runCommand failed"
LogStreamError  == "command.logs() failed"
WaitError       == "command.wait() failed"
\* controller.enqueue on a stream that is no longer readable
EnqueueError    == "TypeError: Invalid state: Controller is already closed"

\* Failures of the sandbox provider and of the caller's stream.
EnvironmentErrors == {CreateError, LaunchError, LogStreamError, WaitError, EnqueueError}

\* stdout = log.data : the entry replaces the buffer.
KeepLastEntry(buffer, data) == data

\* stdout += log.data
Accumulate(buffer, data) == buffer \o data

\* Nothing is taken for the marker.
SuppressNothing(data) == FALSE

\* log.data.includes('__RESULT__')
IsMarkerEntry(data) == Includes(data, ResultMarker)

\* The match as if a missing marker were an empty capture.
MatchOrEmpty(buffer) ==
    LET opens == Occurrences(buffer, ResultMarker)
        ends  == IF opens = {} THEN {}
                 ELSE {j \in Occurrences(buffer, EndMarker) :
                           j >= Min(opens) + Len(ResultMarker) + 1}
    IN  IF ends = {} THEN [found |-> TRUE, group |-> <<>>]
        ELSE [found |-> TRUE,
              group |-> SubSeq(buffer, Min(opens) + Len(ResultMarker), Max(ends) - 1)]

\* stdout.match(/__RESULT__([\s\S]+)__END_RESULT__/): the leftmost start
\* marker, a greedy capture of at least one character, the last end marker.
ResultMatch(buffer) ==
    LET opens == Occurrences(buffer, ResultMarker)
        ends  == IF opens = {} THEN {}
                 ELSE {j \in Occurrences(buffer, EndMarker) :
                           j >= Min(opens) + Len(ResultMarker) + 1}
    IN  IF ends = {} THEN [found |-> FALSE, group |-> <<>>]
        ELSE [found |-> TRUE,
              group |-> SubSeq(buffer, Min(opens) + Len(ResultMarker), Max(ends) - 1)]

\* The decoding as if captured text that does not parse were handed back as
\* a string.
DecodeKeepsRawText(buffer) ==
    LET resultMatch == ResultMatch(buffer)
    IN  IF ~resultMatch.found THEN Err(NoResultError)
        ELSE LET parsed == JSONparse(resultMatch.group)
             IN  IF parsed.ok THEN Ok(parsed.value) ELSE Ok(JStr("raw"))

\* The statements after await command.wait(): match, throw or parse, return.
Decode(buffer) ==
    LET resultMatch == ResultMatch(buffer)
    IN  IF ~resultMatch.found THEN Err(NoResultError)
        ELSE LET parsed == JSONparse(resultMatch.group)
             IN  IF parsed.ok THEN Ok(parsed.value) ELSE Err(SyntaxError)

----------------------------------------------------------------------------
(* handleSSEInvocation *)

LogEvent(stream, text) ==
    [event |-> "log", stream |-> stream, message |-> text,
     result |-> JUndefined, error |-> JUndefined]
ResultEvent(v) ==
    [event |-> "result", stream |-> "", message |-> <<>>,
     result |-> v, error |-> JUndefined]
ErrorEvent(e) ==
    [event |-> "error", stream |-> "", message |-> <<>>,
     result |-> JUndefined, error |-> e]

HasKey(v, key) == v.t = "object" /\ \E i \in 1..Len(v.f) : v.f[i].k = key

\* value[key], undefined when the key is missing
Field(v, key) ==
    IF HasKey(v, key)
    THEN v.f[CHOOSE i \in 1..Len(v.f) : v.f[i].k = key].v
    ELSE JUndefined

\* result.result && typeof result.result === 'object' && '__error' in result.result
IsErrorResult(v) == v.t = "object" /\ HasKey(v, "__error")

\* The events as if the catch block sent nothing.
TerminalEventsNoCatch(o) ==
    IF o.type = "ok"
    THEN IF IsErrorResult(o.result)
         THEN <<ErrorEvent(Field(o.result, "message"))>>
         ELSE <<ResultEvent(o.result)>>
    ELSE <<>>

\* The event start() sends once invokeFunction has settled with o: the
\* classification of a returned value, or the catch block.
TerminalEvents(o) ==
    IF o.type = "ok"
    THEN IF IsErrorResult(o.result)
         THEN <<ErrorEvent(Field(o.result, "message"))>>
         ELSE <<ResultEvent(o.result)>>
    ELSE <<ErrorEvent(JStr(o.message))>>


\* start() after invokeFunction has settled with o: the terminal event is
\* enqueued and the stream closed.  On a stream the caller has cancelled
\* controller.enqueue and controller.close throw, in the try block, in the
\* catch block and in the finally block, and nothing is sent.
StartSettles(o) ==
    /\ hpc' = "done"
    /\ IF cancelled
       THEN UNCHANGED <<events, closed>>
       ELSE /\ events' = events \o TerminalEvents(o)
            /\ closed' = TRUE

InitInvokeVars ==
    /\ behaviour \in Behaviours
    /\ pc = "create"
    /\ procOut = <<>>
    /\ procErr = <<>>
    /\ exitCode = -1
    /\ nOut = 0
    /\ stdout = <<>>
    /\ waited = FALSE
    /\ created = FALSE
    /\ stopCalls = 0
    /\ outcome = None
    /\ events = <<>>
    /\ closed = FALSE
    /\ cancelled = FALSE
    /\ hpc = "invoking"
    /\ received = <<>>
    /\ forwarded = <<>>

\* await Sandbox.create({ source: snapshot })
SandboxCreated ==
    /\ pc = "create"
    /\ created' = TRUE
    /\ pc' = "run"
    /\ UNCHANGED <<behaviour, procOut, procErr, exitCode, nOut, stdout, waited, stopCalls,
                   outcome, events, closed, cancelled, hpc, received,
                   forwarded>>
    /\ UNCHANGED <<deployVars, script, concVars, auxVars>>

\* Sandbox.create rejects: before the try block, invokeFunction rejects.
SandboxCreateFails ==
    /\ pc = "create"
    /\ outcome' = Err(CreateError)
    /\ pc' = "done"
    /\ StartSettles(Err(CreateError))
    /\ UNCHANGED <<behaviour, procOut, procErr, exitCode, nOut, stdout, waited, created,
                   stopCalls, cancelled, received,
                   forwarded>>
    /\ UNCHANGED <<deployVars, script, concVars, auxVars>>

\* await sandbox.runCommand({ cmd: 'node', args: [...], detached: true })
CommandLaunched ==
    /\ pc = "run"
    /\ procOut' = main(behaviour).out
    /\ procErr' = main(behaviour).err
    /\ exitCode' = main(behaviour).exit
    /\ pc' = "logs"
    /\ UNCHANGED <<behaviour, nOut, stdout, waited, created, stopCalls, outcome, events,
                   closed, cancelled, hpc, received,
                   forwarded>>
    /\ UNCHANGED <<deployVars, script, concVars, auxVars>>

\* runCommand rejects outside the try block's reach: no cleanup.
CommandLaunchFailsNoCleanup ==
    /\ pc = "run"
    /\ outcome' = Err(LaunchError)
    /\ pc' = "done"
    /\ StartSettles(Err(LaunchError))
    /\ UNCHANGED <<behaviour, procOut, procErr, exitCode, nOut, stdout, waited, created,
                   stopCalls, cancelled, received,
                   forwarded>>
    /\ UNCHANGED <<deployVars, script, concVars, auxVars>>

\* runCommand rejects: on to the finally block.
CommandLaunchFails ==
    /\ pc = "run"
    /\ outcome' = Err(LaunchError)
    /\ pc' = "finally"
    /\ UNCHANGED <<behaviour, procOut, procErr, exitCode, nOut, stdout, waited, created,
                   stopCalls, events, closed, cancelled, hpc, received,
                   forwarded>>
    /\ UNCHANGED <<deployVars, script, concVars, auxVars>>

\* A log entry of command.logs(): the channel it came from and its text.
LogEntry(stream, data) == [stream |-> stream, data |-> data]

OnLogArgumentStdout(log) == LogEntry("stdout", trimEnd(log.data))

\* The object invokeFunction hands to onLog for an entry.
OnLogArgument(log) == LogEntry(log.stream, trimEnd(log.data))

\* The rest of one loop iteration for an entry: the marker check, then
\* onLog, which is controller.enqueue of a 'log' event and throws on a
\* cancelled stream (the exception leaves the loop for the finally block).
Forward(stream, data) ==
    /\ received' = Append(received, LogEntry(stream, data))
    /\ IF IsMarkerEntry(data)
       THEN UNCHANGED <<pc, outcome, events, forwarded>>
       ELSE /\ forwarded' = Append(forwarded, OnLogArgument(LogEntry(stream, data)))
            /\ IF cancelled
               THEN /\ outcome' = Err(EnqueueError)
                    /\ pc' = "finally"
                    /\ UNCHANGED events
               ELSE /\ events' = Append(events, LogEvent(stream, trimEnd(data)))
                    /\ UNCHANGED <<pc, outcome>>

\* for await (const log of command.logs()): a standard-output entry, the next
\* k characters the process wrote.
StdoutEntry ==
    /\ pc = "logs"
    /\ \E k \in 1..Len(procOut) :
          /\ nOut + 1 < MaxChunks \/ k = Len(procOut)
          /\ stdout' = Accumulate(stdout, SubSeq(procOut, 1, k))
          /\ procOut' = SubSeq(procOut, k + 1, Len(procOut))
          /\ nOut' = nOut + 1
          /\ Forward("stdout", SubSeq(procOut, 1, k))
    /\ UNCHANGED <<behaviour, procErr, exitCode, waited, created, stopCalls, closed,
                   cancelled, hpc>>
    /\ UNCHANGED <<deployVars, script, concVars, auxVars>>

\* A standard-error entry as if it were added to the buffer as well.
StderrEntryAccumulates ==
    /\ pc = "logs"
    /\ procErr # <<>>
    /\ procErr' = <<>>
    /\ stdout' = Accumulate(stdout, procErr)
    /\ Forward("stderr", procErr)
    /\ UNCHANGED <<behaviour, procOut, exitCode, nOut, waited, created, stopCalls,
                   closed, cancelled, hpc>>
    /\ UNCHANGED <<deployVars, script, concVars, auxVars>>

\* A standard-error entry: what the process wrote to the error channel.
StderrEntry ==
    /\ pc = "logs"
    /\ procErr # <<>>
    /\ procErr' = <<>>
    /\ Forward("stderr", procErr)
    /\ UNCHANGED <<behaviour, procOut, exitCode, nOut, stdout, waited, created, stopCalls,
                   closed, cancelled, hpc>>
    /\ UNCHANGED <<deployVars, script, concVars, auxVars>>

\* The log iterator is done: on to await command.wait().
LogsDrained ==
    /\ pc = "logs"
    /\ procOut = <<>>
    /\ procErr = <<>>
    /\ pc' = "wait"
    /\ UNCHANGED <<behaviour, procOut, procErr, exitCode, nOut, stdout, waited, created,
                   stopCalls, outcome, events, closed, cancelled, hpc, received, forwarded, received,
                   forwarded>>
    /\ UNCHANGED <<deployVars, script, concVars, auxVars>>

\* The log iterator throws.
LogStreamFails ==
    /\ pc = "logs"
    /\ outcome' = Err(LogStreamError)
    /\ pc' = "finally"
    /\ UNCHANGED <<behaviour, procOut, procErr, exitCode, nOut, stdout, waited, created,
                   stopCalls, events, closed, cancelled, hpc, received,
                   forwarded>>
    /\ UNCHANGED <<deployVars, script, concVars, auxVars>>

\* command.wait() rejects, and the buffer is decoded all the same.
CommandWaitFailsDecodes ==
    /\ pc = "wait"
    /\ outcome' = Decode(stdout)
    /\ pc' = "finally"
    /\ UNCHANGED <<behaviour, procOut, procErr, exitCode, nOut, stdout, waited, created,
                   stopCalls, events, closed, cancelled, hpc, received,
                   forwarded>>
    /\ UNCHANGED <<deployVars, script, concVars, auxVars>>

\* command.wait() rejects.
CommandWaitFails ==
    /\ pc = "wait"
    /\ outcome' = Err(WaitError)
    /\ pc' = "finally"
    /\ UNCHANGED <<behaviour, procOut, procErr, exitCode, nOut, stdout, waited, created,
                   stopCalls, events, closed, cancelled, hpc, received,
                   forwarded>>
    /\ UNCHANGED <<deployVars, script, concVars, auxVars>>

\* command.wait() resolves; the buffer is matched and parsed, and the result
\* returned or the error thrown, into the finally block.
CommandWaited ==
    /\ pc = "wait"
    /\ waited' = TRUE
    /\ outcome' = Decode(stdout)
    /\ pc' = "finally"
    /\ UNCHANGED <<behaviour, procOut, procErr, exitCode, nOut, stdout, created, stopCalls,
                   events, closed, cancelled, hpc, received,
                   forwarded>>
    /\ UNCHANGED <<deployVars, script, concVars, auxVars>>

\* finally { await sandbox.stop() }: invokeFunction settles with the pending
\* completion and start() goes on to send the terminal event.  The call to
\* sandbox.stop() is taken to resolve.
SandboxStopped ==
    /\ pc = "finally"
    /\ stopCalls' = stopCalls + 1
    /\ pc' = "done"
    /\ StartSettles(outcome)
    /\ UNCHANGED <<behaviour, procOut, procErr, exitCode, nOut, stdout, waited, created,
                   outcome, cancelled, received,
                   forwarded>>
    /\ UNCHANGED <<deployVars, script, concVars, auxVars>>

\* The disconnect as if it ended the invocation where it stands.
CallerDisconnectsAborts ==
    /\ hpc = "invoking"
    /\ ~cancelled
    /\ cancelled' = TRUE
    /\ pc' = "done"
    /\ hpc' = "done"
    /\ UNCHANGED <<behaviour, procOut, procErr, exitCode, nOut, stdout, waited, created,
                   stopCalls, outcome, events, closed, received, forwarded>>
    /\ UNCHANGED <<deployVars, script, concVars, auxVars>>

\* The caller disconnects: the response stream is cancelled.  The stream has
\* no cancel() callback and invokeFunction is given no abort signal, so the
\* step changes nothing but the state of the stream.
CallerDisconnects ==
    /\ hpc = "invoking"
    /\ ~cancelled
    /\ cancelled' = TRUE
    /\ UNCHANGED <<behaviour, pc, procOut, procErr, exitCode, nOut, stdout, waited, created,
                   stopCalls, outcome, events, closed, hpc, received,
                   forwarded>>
    /\ UNCHANGED <<deployVars, script, concVars, auxVars>>

Init == InitInvokeVars /\ IdleDeployVars /\ IdleScript /\ IdleCalls /\ IdleAux

Next ==
    \/ SandboxCreated
    \/ SandboxCreateFails
    \/ CommandLaunched
    \/ CommandLaunchFails
    \/ StdoutEntry
    \/ StderrEntry
    \/ LogsDrained
    \/ LogStreamFails
    \/ CommandWaited
    \/ CommandWaitFails
    \/ SandboxStopped
    \/ CallerDisconnects

Spec == Init /\ [][Next]_vars

\* The steps invokeFunction and start() take on their own: each awaited
\* promise settles (the process ends, the provider answers) and the
\* continuation runs.
Progress ==
    \/ SandboxCreated
    \/ SandboxCreateFails
    \/ CommandLaunched
    \/ CommandLaunchFails
    \/ StdoutEntry
    \/ StderrEntry
    \/ LogsDrained
    \/ LogStreamFails
    \/ CommandWaitFails
    \/ CommandWaited
    \/ SandboxStopped

\* The invocations of functions that return, end the process or are killed.
InitLive == Init /\ behaviour.kind # "throw"

\* The invocation with every pending await settling in the end.
SpecLive == InitLive /\ [][Next]_vars /\ WF_vars(Progress)

----------------------------------------------------------------------------
(* Properties of the invocation transport (Spec) *)

\* The positions of the 'result' and 'error' events sent so far.
Terminals == {i \in 1..Len(events) : events[i].event \in {"result", "error"}}

LogEvents == {i \in 1..Len(events) : events[i].event = "log"}

\* invokeFunction has settled.
Settled == pc = "done"

\* start() has run to its end for a caller that is still connected.
Delivered == hpc = "done" /\ ~cancelled

\* C4: once Sandbox.create has succeeded, sandbox.stop() is called exactly
\* once before invokeFunction settles, on every exit path; it is never
\* called twice, and never when no sandbox was created.
C4_StopExactlyOnce ==
    /\ stopCalls <= 1
    /\ ~created => stopCalls = 0
    /\ (Settled /\ created) => stopCalls = 1
    /\ stopCalls = 1 => pc = "done"

\* invokeFunction has settled after an exception of the onLog callback.
C4_Witness ==
    /\ Settled
    /\ created
    /\ outcome = Err(EnqueueError)
    /\ stopCalls = 1

\* C5: the events sent to a connected caller are zero or more 'log' events
\* followed by exactly one terminal event, 'result' or 'error'; the stream
\* is closed with it and nothing is sent after it.
C5_OneTerminalEvent ==
    /\ Cardinality(Terminals) <= 1
    /\ \A i \in Terminals : i = Len(events)
    /\ Terminals # {} <=> closed
    /\ Delivered => closed /\ Cardinality(Terminals) = 1

\* Two log events, then the terminal 'result' event, and the stream closed.
C5_Witness ==
    /\ closed
    /\ Len(events) = 3
    /\ events[1].event = "log" /\ events[2].event = "log"
    /\ events[3].event = "result"

\* The characters of the process's standard output that the marker
\* __RESULT__<json>__END_RESULT__ occupies.
MarkerRange(b) ==
    IF b.kind \in {"return", "throw"}
    THEN (Len(ConsoleLog(b.lines)) + 1)..(Len(main(b).out) - 1)
    ELSE {}

\* C6: no standard-output entry that carries a part of the marker is
\* forwarded to the caller, however the marker is split over entries.
C6_NoMarkerPartForwarded ==
    [][ (/\ pc = "logs"
         /\ Len(stdout') > Len(stdout)
         /\ ((Len(stdout) + 1)..Len(stdout')) \cap MarkerRange(behaviour) # {})
        => events' = events ]_vars

\* What a process that writes a marker writes between the start and the end
\* marker.
WrittenValue(b) ==
    IF b.kind = "return" THEN b.value
    ELSE ErrorEnvelope(ErrorMessageOrString(b.message))

WritesJson(b) == b.kind \in {"return", "throw"} /\ WrittenValue(b) # JUndefined

\* The user function prints a line that holds '__RESULT__' or '__END_RESULT__'.
PrintsMarkerText(b) ==
    \E i \in 1..Len(b.lines) :
        \/ Includes(CharsOf(b.lines[i]), ResultMarker)
        \/ Includes(CharsOf(b.lines[i]), EndMarker)

\* C7: however the standard output is split into log entries, the value
\* decoded after termination is the JSON value the process wrote between
\* __RESULT__ and __END_RESULT__, and nothing else is ever decoded.
C7_DecodedIsWritten ==
    /\ (waited /\ WritesJson(behaviour)) => outcome = Ok(WrittenValue(behaviour))
    /\ outcome.type = "ok" =>
           WritesJson(behaviour) /\ outcome.result = WrittenValue(behaviour)

\* A plain line precedes the marker, the marker was split between two
\* entries (its tail was delivered on its own), and the value was decoded.
C7_Witness ==
    /\ Settled
    /\ behaviour.lines # <<>>
    /\ nOut >= 2
    /\ \E i \in LogEvents : Includes(events[i].message, EndMarker)
    /\ outcome = Ok(WrittenValue(behaviour))

\* The process wrote no complete marker.
WritesNoMarker(b) == b.kind \in {"exit", "killed", "errmarker"}

\* C8: when the process has terminated without a marker in its standard
\* output, invokeFunction fails with 'Function did not return a result', and
\* the streamed invocation ends with an 'error' event and no 'result' event.
C8_MissingMarkerIsError ==
    (waited /\ WritesNoMarker(behaviour)) =>
        /\ outcome = Err(NoResultError)
        /\ Delivered =>
               /\ events # <<>>
               /\ events[Len(events)] = ErrorEvent(JStr(NoResultError))
               /\ \A i \in 1..Len(events) : events[i].event # "result"

\* A killed process, the start marker written but not the end marker, and
\* the invocation delivered to the caller.
C8_Witness ==
    /\ waited
    /\ behaviour.kind = "killed"
    /\ Delivered
    /\ events[Len(events)].event = "error"

\* The whole standard output of the launched process.
ProcessOutput == stdout \o procOut

\* The script wrote one marker line, carrying { __error: true, message: m },
\* and exited with status 1; a connected caller got a terminal 'error' event
\* with text m, no 'result' event and no log event with the marker.
ThrowReportedAs(m) ==
    /\ exitCode # -1 =>
           /\ exitCode = 1
           /\ Includes(ProcessOutput, MarkerLine(ErrorEnvelope(m)))
           /\ Cardinality(Occurrences(ProcessOutput, EndMarker \o NewLine)) = 1
    /\ (waited /\ Delivered) =>
           /\ events # <<>>
           /\ events[Len(events)] = ErrorEvent(JStr(m))
           /\ \A i \in 1..Len(events) : events[i].event # "result"
           /\ \A i \in LogEvents : ~Includes(events[i].message, ResultMarker)

\* C9 (as stated): for every message m of the thrown error.
C9_ThrownMessageReported ==
    behaviour.kind = "throw" => ThrowReportedAs(behaviour.message)

\* C9 (amended): for every non-empty message m; an error with an empty
\* message is reported with the text of String(error), 'Error'.
C9_NonEmptyMessageReported ==
    /\ (behaviour.kind = "throw" /\ behaviour.message # "") =>
           ThrowReportedAs(behaviour.message)
    /\ (behaviour.kind = "throw" /\ behaviour.message = "") =>
           ThrowReportedAs("Error")

\* The function threw 'boom' and the caller has the terminal event.
C9_Witness ==
    /\ behaviour.kind = "throw"
    /\ behaviour.message = "boom"
    /\ waited
    /\ Delivered
    /\ events[Len(events)] = ErrorEvent(JStr("boom"))

\* C10: a result is produced only after the log stream was consumed to its
\* end and command.wait() has completed; while the wait is pending or after
\* it failed there is no result, and no 'result' event is sent.
C10_ResultAfterDrainAndWait ==
    /\ outcome.type = "ok" => waited /\ procOut = <<>> /\ procErr = <<>>
    /\ pc = "wait" => outcome = None
    /\ ~waited => \A i \in 1..Len(events) : events[i].event # "result"

\* The log stream ended and the wait failed: the invocation settled with the
\* wait's error.
C10_Witness ==
    /\ Settled
    /\ procOut = <<>> /\ procErr = <<>>
    /\ exitCode # -1
    /\ outcome = Err(WaitError)

----------------------------------------------------------------------------
(* Log forwarding *)

RECURSIVE OnLogCalls(_)
\* What the loop hands to onLog for a sequence of received entries: for each
\* entry whose text does not contain '__RESULT__', in arrival order, its
\* channel and its text without trailing white space.
OnLogCalls(entries) ==
    IF entries = <<>> THEN <<>>
    ELSE LET e == Head(entries)
         IN (IF Includes(e.data, ResultMarker)
             THEN <<>>
             ELSE <<[stream |-> e.stream, data |-> trimEnd(e.data)]>>)
            \o OnLogCalls(Tail(entries))

\* The 'log' events enqueued on the response stream, in order.
SentLogs == SelectSeq(events, LAMBDA e : e.event = "log")

\* C11: the entries passed to onLog are exactly the received entries, of
\* either channel, whose text does not contain '__RESULT__': each once, in
\* arrival order, with the channel it came from (the text loses its trailing
\* white space); an entry that contains '__RESULT__' is never passed on, and
\* what reaches the caller as 'log' events is a prefix of these calls.
C11_ForwardedIsFilteredSubsequence ==
    /\ forwarded = OnLogCalls(received)
    /\ \A i \in 1..Len(forwarded) : ~Includes(forwarded[i].data, ResultMarker)
    /\ Len(SentLogs) <= Len(forwarded)
    /\ \A i \in 1..Len(SentLogs) :
           SentLogs[i] = LogEvent(forwarded[i].stream, forwarded[i].data)

\* Entries of both channels were received, one of each was passed on and
\* one with the marker was held back.
C11_Witness ==
    /\ \E i \in 1..Len(received) : Includes(received[i].data, ResultMarker)
    /\ \E i, j \in 1..Len(forwarded) :
           forwarded[i].stream = "stdout" /\ forwarded[j].stream = "stderr"
    /\ Len(forwarded) < Len(received)
    /\ pc = "wait"

----------------------------------------------------------------------------
(* The generated script run on its own *)

\* The function names given on the command line ("" : none given).
ScriptNames == {"", "a", "b", "zz", "constructor", "toString"}

\* The payload texts given on the command line (<<>> : none given).
PayloadTexts == {<<>>, <<"{", "}">>, <<"{">>}

\* The registries of the generated scripts.
Registries == {<<"a">>, <<"a", "b">>}

InitScript ==
    script \in [functionName : ScriptNames, payloadJson : PayloadTexts,
                functions : Registries, behaviour : ScriptBehaviours,
                ran : {FALSE}, out : {<<>>}, err : {<<>>}, exit : {-1},
                called : {"none"}, decoded : {None}, terminal : {<<>>}]

\* node worker.js <functionName> <payloadJson> runs to its end.
ScriptRuns ==
    /\ ~script.ran
    /\ LET r == scriptMain(script.functionName, script.payloadJson, script.functions,
                           script.behaviour)
       IN  script' = [script EXCEPT !.ran = TRUE, !.out = r.out, !.err = r.err,
                                    !.exit = r.exit, !.called = r.called]
    /\ UNCHANGED <<deployVars, invokeVars, concVars, auxVars>>

\* The transport has all of the standard output in its buffer and the
\* process has ended: invokeFunction decodes the result, and start() of the
\* streamed invocation sends the terminal event for it.
TransportDecodes ==
    /\ script.ran
    /\ script.decoded = None
    /\ script' = [script EXCEPT !.decoded = Decode(script.out),
                                !.terminal = TerminalEvents(Decode(script.out))]
    /\ UNCHANGED <<deployVars, invokeVars, concVars, auxVars>>

NextScript ==
    \/ ScriptRuns
    \/ TransportDecodes

InitScriptRun == InitScript /\ IdleDeployVars /\ IdleInvokeVars /\ IdleCalls /\ IdleAux

SpecScript == InitScriptRun /\ [][NextScript]_vars

\* The name given is not a key of the registry.
NotInManifest == script.functionName # "" /\ script.functionName \notin Range(script.functions)

\* C12: run with a function name that is not in the manifest ('constructor'
\* and 'toString' included), the script exits with a non-zero status, calls
\* no function and writes no marker line.
C12_UnknownNameRejected ==
    (script.ran /\ NotInManifest) =>
        /\ script.exit # 0
        /\ script.called = "none"
        /\ ~Includes(script.out, ResultMarker)

\* The lines of standard output that begin with '__RESULT__'.
MarkerLinesOf(out) ==
    {i \in Occurrences(out, ResultMarker) : i = 1 \/ out[i - 1] = "\n"}

\* The user function, when it is the one called, returns or throws and
\* prints no marker text of its own.
UserFunctionSettles ==
    script.called = "user" =>
        /\ script.behaviour.kind \in {"return", "throw"}
        /\ ~PrintsMarkerText(script.behaviour)

----------------------------------------------------------------------------
(* Return values, errors and their classification *)

\* The run called the user function, which returned.
Returned == script.decoded # None /\ script.called = "user" /\ script.behaviour.kind = "return"

\* C14: for a function of the registry that returns (a number, a string,
\* null, an array, an object, or no value) and prints plain lines only, the
\* value decoded by the transport is the function's return value.
C14_DecodedIsReturnValue ==
    (Returned /\ ~PrintsMarkerText(script.behaviour)) =>
        script.decoded = Ok(script.behaviour.value)

\* C15: no error thrown by a user function ends the streamed invocation with
\* the terminal event of a missing marker, the 'error' event with the text
\* 'Function did not return a result'.
C15_MissingMarkerDistinctFromThrow ==
    (script.decoded # None /\ script.called = "user" /\ script.behaviour.kind = "throw") =>
        script.terminal # <<ErrorEvent(JStr(NoResultError))>>

\* C16: a decoded value is reported as failed (an 'error' event) exactly when
\* it is an object whose __error is true; every other decoded value, an
\* object with another value under '__error' included, is reported by a
\* 'result' event that carries it.
C16_FailedIffErrorTrue ==
    script.decoded.type = "ok" =>
        IF Field(script.decoded.result, "__error") = JTrue
        THEN script.terminal[1].event = "error"
        ELSE script.terminal = <<ResultEvent(script.decoded.result)>>

\* C17: for a function that returns a value, whatever it prints before
\* returning (lines with the text '__RESULT__' or '__END_RESULT__'
\* included), the result decoded by the transport is the return value.
C17_UserOutputNeverCollides ==
    (Returned /\ script.behaviour.value # JUndefined) =>
        script.decoded = Ok(script.behaviour.value)

----------------------------------------------------------------------------
(* Caller disconnect *)

\* C18: once the caller has disconnected from an invocation whose sandbox
\* was created, the sandbox is stopped in the end (every pending await
\* settling); and the disconnect itself reaches neither invokeFunction nor
\* the process: the step leaves the position of invokeFunction, the output
\* and exit status of the process and the stop count as they were.
C18_StoppedAfterDisconnect ==
    /\ (cancelled /\ created) ~> (stopCalls = 1)
    /\ [][ (cancelled' /\ ~cancelled) =>
               UNCHANGED <<pc, procOut, procErr, exitCode, stopCalls, outcome>> ]_vars

\* The caller had gone, a log entry could not be written to the closed
\* stream, and the sandbox was stopped.
C18_Witness ==
    /\ cancelled
    /\ created
    /\ outcome = Err(EnqueueError)
    /\ stopCalls = 1

----------------------------------------------------------------------------
(* Two concurrent calls of invokeFunction on the one SandboxClient *)

CallIds == {1, 2}

SnapshotIds == {"s1", "s2"}

\* What the process launched with payload p writes: a line with the payload,
\* then the marker line with the payload as the result.  Each entry carries
\* the sandbox it was written in.
ProcessEntries(box, p) ==
    << [box |-> box, stream |-> "stdout", data |-> JSONstringify(JNum(p)) \o NewLine],
       [box |-> box, stream |-> "stdout", data |-> MarkerLine(JNum(p))] >>

\* A field of the shared client as the place of the buffer.
SharedBuffer(c) == 1

\* let stdout = '' is a local of the call: each call has its own buffer.
BufferOf(c) == c

\* Call c is made with payload c, on any snapshot.
InitCalls ==
    /\ \E snapshot \in [CallIds -> SnapshotIds] :
           calls = [c \in CallIds |->
                       [pc |-> "create", snapshot |-> snapshot[c], payload |-> c,
                        sandbox |-> 0, logs |-> <<>>, outcome |-> None]]
    /\ boxes = <<>>
    /\ buffers = [c \in CallIds |-> <<>>]

\* The call's own sandbox (0: none yet).
SandboxOf(c) == calls[c].sandbox

\* invokeFunction(snapshotId, functionName, payload, onLog) is entered and
\* await Sandbox.create resolves with a new sandbox.
CallCreates(c) ==
    /\ calls[c].pc = "create"
    /\ boxes' = Append(boxes, [creator |-> c, snapshot |-> calls[c].snapshot,
                               out |-> <<>>, stops |-> 0])
    /\ calls' = [calls EXCEPT ![c].pc = "run", ![c].sandbox = Len(boxes) + 1]
    /\ UNCHANGED buffers

\* sandbox.runCommand on the call's sandbox, then let stdout = ''.
CallLaunches(c) ==
    /\ calls[c].pc = "run"
    /\ boxes' = [boxes EXCEPT ![SandboxOf(c)].out =
                                  ProcessEntries(SandboxOf(c), calls[c].payload)]
    /\ buffers' = [buffers EXCEPT ![BufferOf(c)] = <<>>]
    /\ calls' = [calls EXCEPT ![c].pc = "logs"]

\* One entry of command.logs() of the call's own command.
CallReceives(c) ==
    /\ calls[c].pc = "logs"
    /\ boxes[SandboxOf(c)].out # <<>>
    /\ LET log == Head(boxes[SandboxOf(c)].out)
       IN  /\ boxes' = [boxes EXCEPT ![SandboxOf(c)].out = Tail(@)]
           /\ buffers' = [buffers EXCEPT
                              ![BufferOf(c)] = Accumulate(@, log.data)]
           /\ calls' = [calls EXCEPT
                            ![c].logs = IF IsMarkerEntry(log.data) THEN @
                                        ELSE Append(@, [box    |-> log.box,
                                                        stream |-> log.stream,
                                                        data   |-> trimEnd(log.data)])]

\* The log stream has ended and command.wait() resolves: the call decodes
\* its buffer.
CallWaits(c) ==
    /\ calls[c].pc = "logs"
    /\ boxes[SandboxOf(c)].out = <<>>
    /\ calls' = [calls EXCEPT ![c].pc = "finally",
                              ![c].outcome = Decode(buffers[BufferOf(c)])]
    /\ UNCHANGED <<boxes, buffers>>

\* runCommand, the log stream or command.wait() fails.
CallFails(c) ==
    /\ calls[c].pc \in {"run", "logs"}
    /\ calls' = [calls EXCEPT ![c].pc = "finally",
                              ![c].outcome = Err(IF calls[c].pc = "run"
                                                 THEN LaunchError
                                                 ELSE LogStreamError)]
    /\ UNCHANGED <<boxes, buffers>>

\* finally { await sandbox.stop() } on the call's own sandbox.
CallStops(c) ==
    /\ calls[c].pc = "finally"
    /\ boxes' = [boxes EXCEPT ![SandboxOf(c)].stops = @ + 1]
    /\ calls' = [calls EXCEPT ![c].pc = "done"]
    /\ UNCHANGED buffers

NextCalls ==
    \E c \in CallIds :
        /\ \/ CallCreates(c)
           \/ CallLaunches(c)
           \/ CallReceives(c)
           \/ CallWaits(c)
           \/ CallFails(c)
           \/ CallStops(c)
        /\ UNCHANGED <<deployVars, invokeVars, script, auxVars>>

InitTwoCalls == InitCalls /\ IdleDeployVars /\ IdleInvokeVars /\ IdleScript /\ IdleAux

SpecCalls == InitTwoCalls /\ [][NextCalls]_vars

\* C19: at every point of every interleaving of the two calls, each call has
\* a sandbox of its own that it created, a sandbox is stopped by its own call
\* only and once the call has settled exactly once, the entries given to a
\* call's onLog come from the process of its own sandbox, and a call that
\* yields a result yields the one its own process wrote.
C19_CallsAreIndependent ==
    \A c \in CallIds :
        /\ SandboxOf(c) # 0 =>
               /\ boxes[SandboxOf(c)].creator = c
               /\ \A d \in CallIds \ {c} : SandboxOf(d) # SandboxOf(c)
               /\ boxes[SandboxOf(c)].stops = (IF calls[c].pc = "done" THEN 1 ELSE 0)
        /\ \A i \in 1..Len(calls[c].logs) : calls[c].logs[i].box = SandboxOf(c)
        /\ calls[c].outcome.type = "ok" => calls[c].outcome.result = JNum(calls[c].payload)
        /\ (calls[c].pc = "done" /\ calls[c].outcome.type = "err") =>
               calls[c].outcome.message \in {LaunchError, LogStreamError}

\* Both calls ran on the same snapshot, their entries interleaved (the call
\* that created the second sandbox finished first), and each has its own
\* result.
C19_Witness ==
    /\ calls[1].snapshot = calls[2].snapshot
    /\ calls[1].pc = "done" /\ calls[2].pc = "logs"
    /\ SandboxOf(1) = 2 /\ SandboxOf(2) = 1
    /\ Len(calls[2].logs) = 1
    /\ calls[1].outcome = Ok(JNum(1))
    /\ boxes[2].stops = 1 /\ boxes[1].stops = 0

----------------------------------------------------------------------------
(* createWorkerSnapshot: cleanup on failure *)

\* writeFiles or snapshot has failed in createWorkerSnapshot.
SnapshotStepFailed == dresp.error \in {"write files failed", "snapshot failed"}

\* C20: when writing the files or taking the snapshot fails after the sandbox
\* was created, sandbox.stop() has been called once by the time the error
\* reaches the caller (it has not reached it while the stop is pending), and
\* the call yields no snapshot id: no snapshot was taken and no worker record
\* is stored.
C20_StopBeforeErrorPropagates ==
    SnapshotStepFailed =>
        /\ sandboxes = 1
        /\ dpc \in {"cleanup", "done"}
        /\ dpc = "cleanup" => sbStops = 0 /\ dresp.status = 0
        /\ dpc = "done" => sbStops = 1 /\ dresp.status = 500
        /\ snapshots = 0
        /\ workers = 0

\* The snapshot failed, the sandbox was stopped and the deploy answered 500.
C20_Witness ==
    /\ dresp = [status |-> 500, error |-> "snapshot failed"]
    /\ sandboxes = 1
    /\ sbStops = 1
    /\ dpc = "done"

----------------------------------------------------------------------------
(* stripTypeScript: thirteen replacements over the characters of the code *)

\* \w
WordChars ==
    Range(CharsOf("abcdefghijklmnopqrstuvwxyzABCDEFGHIJKLMNOPQRSTUVWXYZ0123456789_"))

\* [\w<>[\]|&] and [\w<>[\]|&\s]
AssertedTypeChars == WordChars \cup {"<", ">", "[", "]", "|", "&"}
TypeChars == AssertedTypeChars \cup WhiteSpace

RECURSIVE RunEnd(_, _, _)
\* The end of the longest run of characters of a class from position i on:
\* the first position whose character is not in the class.
RunEnd(s, i, class) ==
    IF i <= Len(s) /\ s[i] \in class THEN RunEnd(s, i + 1, class) ELSE i

\* The literal text str stands at position i.
Lit(s, i, str) ==
    /\ i >= 1
    /\ i + Len(str) - 1 <= Len(s)
    /\ SubSeq(s, i, i + Len(str) - 1) = CharsOf(str)

\* The first position from i on where the literal stands (0: nowhere).
IndexOf(s, i, str) ==
    LET at == {j \in i..Len(s) : Lit(s, j, str)}
    IN  IF at = {} THEN 0 ELSE Min(at)

\* No match of a pattern at a position, and a match that ends before
\* position end and is replaced by out.
NoRule == [end |-> 0, out |-> <<>>]
Replaced(end, out) == [end |-> end, out |-> out]

\* ^ under the m flag
LineStart(s, i) == i = 1 \/ s[i - 1] = "\n"

\* /^\s*interface\s+\w+\s*\{[\s\S]*?\n\}/gm  ->  ''
InterfaceRule(s, i) ==
    LET a == RunEnd(s, i, WhiteSpace)
        b == RunEnd(s, a + 9, WhiteSpace)
        c == RunEnd(s, b, WordChars)
        d == RunEnd(s, c, WhiteSpace)
        e == IndexOf(s, d + 1, "\n}")
    IN  IF /\ LineStart(s, i) /\ Lit(s, a, "interface") /\ b > a + 9 /\ c > b
           /\ At(s, d) = "{" /\ e # 0
        THEN Replaced(e + 2, <<>>)
        ELSE NoRule

\* /^\s*type\s+\w+\s*=\s*[^;]+;/gm  ->  ''
TypeAliasRule(s, i) ==
    LET a == RunEnd(s, i, WhiteSpace)
        b == RunEnd(s, a + 4, WhiteSpace)
        c == RunEnd(s, b, WordChars)
        d == RunEnd(s, c, WhiteSpace)
        e == IndexOf(s, d + 1, ";")
    IN  IF /\ LineStart(s, i) /\ Lit(s, a, "type") /\ b > a + 4 /\ c > b
           /\ At(s, d) = "=" /\ e > d + 1
        THEN Replaced(e + 1, <<>>)
        ELSE NoRule

\* /import\s+type\s+[^;]+;/g  ->  ''
ImportTypeRule(s, i) ==
    LET a == RunEnd(s, i + 6, WhiteSpace)
        b == RunEnd(s, a + 4, WhiteSpace)
        e == IndexOf(s, a + 4, ";")
    IN  IF Lit(s, i, "import") /\ a > i + 6 /\ Lit(s, a, "type") /\ b > a + 4
           /\ e > a + 5
        THEN Replaced(e + 1, <<>>)
        ELSE NoRule

\* /\{\s*type\s+(\w+)/g -> '{ $1'  and  /,\s*type\s+(\w+)/g -> ', $1'
TypeKeywordRule(s, i, opening) ==
    LET a == RunEnd(s, i + 1, WhiteSpace)
        b == RunEnd(s, a + 4, WhiteSpace)
        c == RunEnd(s, b, WordChars)
    IN  IF At(s, i) = opening /\ Lit(s, a, "type") /\ b > a + 4 /\ c > b
        THEN Replaced(c, <<opening, " ">> \o SubSeq(s, b, c - 1))
        ELSE NoRule

\* /(function\s+\w+)\s*<[^>]+>\s*\(/g  ->  '$1('
GenericsRule(s, i) ==
    LET a == RunEnd(s, i + 8, WhiteSpace)
        b == RunEnd(s, a, WordChars)
        c == RunEnd(s, b, WhiteSpace)
        d == IndexOf(s, c + 1, ">")
        e == RunEnd(s, d + 1, WhiteSpace)
    IN  IF Lit(s, i, "function") /\ a > i + 8 /\ b > a /\ At(s, c) = "<"
           /\ d > c + 1 /\ At(s, e) = "("
        THEN Replaced(e + 1, SubSeq(s, i, b - 1) \o <<"(">>)
        ELSE NoRule

\* /\)\s*:\s*[\w<>[\]|&\s]+\s*\{/g -> ') {'  and  /\)\s*:\s*[\w<>[\]|&\s]+\s*=>/g -> ') =>'
ReturnTypeRule(s, i, closing) ==
    LET a == RunEnd(s, i + 1, WhiteSpace)
        b == RunEnd(s, a + 1, TypeChars)
    IN  IF At(s, i) = ")" /\ At(s, a) = ":" /\ b > a + 1 /\ Lit(s, b, closing)
        THEN Replaced(b + Len(closing), CharsOf(") " \o closing))
        ELSE NoRule

RECURSIVE Split(_, _)
\* String.prototype.split(sep) for a one-character separator
Split(s, sep) ==
    LET at == {j \in 1..Len(s) : s[j] = sep}
    IN  IF at = {} THEN <<s>>
        ELSE <<SubSeq(s, 1, Min(at) - 1)>> \o Split(SubSeq(s, Min(at) + 1, Len(s)), sep)

RECURSIVE Join(_, _)
\* Array.prototype.join(sep)
Join(parts, sep) ==
    IF parts = <<>> THEN <<>>
    ELSE IF Len(parts) = 1 THEN parts[1]
    ELSE parts[1] \o sep \o Join(Tail(parts), sep)

\* :\s*.+$ from position i of t: a colon, then white space, then at least
\* one character, none of them a line break, up to the end of the text.
AnnotationAt(t, i) ==
    /\ At(t, i) = ":"
    /\ \E k \in (i + 1)..Len(t) :
          /\ \A j \in (i + 1)..(k - 1) : t[j] \in WhiteSpace
          /\ \A j \in k..Len(t) : t[j] # "\n"

\* The callback's map over one piece of the split parameter text.
StripParam(param) ==
    LET t  == trimStart(trimEnd(param))
        w  == RunEnd(t, 1, WordChars)
        q  == IF At(t, w) = "?" THEN w + 1 ELSE w
        r0 == IF Lit(t, 3, ".") THEN 4 ELSE 3
        r  == RunEnd(t, r0, WordChars)
    IN  IF w > 1 /\ AnnotationAt(t, q)                       \* /^(\w+)\??:\s*.+$/
        THEN SubSeq(t, 1, w - 1)
        ELSE IF Lit(t, 1, "..") /\ r > r0 /\ AnnotationAt(t, r)   \* /^(\.\.\.?\w+):\s*.+$/
        THEN SubSeq(t, 1, r - 1)
        ELSE t

\* /\(([^)]*)\)/g with the callback
ParamsRule(s, i) ==
    LET e      == IndexOf(s, i + 1, ")")
        params == SubSeq(s, i + 1, e - 1)
        pieces == Split(params, ",")
    IN  IF At(s, i) = "(" /\ e # 0
        THEN IF ":" \notin Range(params)
             THEN Replaced(e + 1, SubSeq(s, i, e))
             ELSE Replaced(e + 1,
                      <<"(">> \o Join([k \in 1..Len(pieces) |-> StripParam(pieces[k])],
                                      <<",", " ">>)
                             \o <<")">>)
        ELSE NoRule

\* /(const|let|var)\s+(\w+)\s*:\s*[\w<>[\]|&\s]+\s*=/g  ->  '$1 $2 ='
VarTypeRule(s, i) ==
    LET kw == IF Lit(s, i, "const") THEN "const"
              ELSE IF Lit(s, i, "let") THEN "let"
              ELSE IF Lit(s, i, "var") THEN "var" ELSE ""
        a  == RunEnd(s, i + Len(kw), WhiteSpace)
        b  == RunEnd(s, a, WordChars)
        c  == RunEnd(s, b, WhiteSpace)
        d  == RunEnd(s, c + 1, TypeChars)
    IN  IF kw # "" /\ a > i + Len(kw) /\ b > a /\ At(s, c) = ":" /\ d > c + 1
           /\ At(s, d) = "="
        THEN Replaced(d + 1, CharsOf(kw) \o <<" ">> \o SubSeq(s, a, b - 1) \o <<" ", "=">>)
        ELSE NoRule

\* /(\S)\s+as\s+[\w<>[\]|&]+/g  ->  '$1'
AsRule(s, i) ==
    LET a == RunEnd(s, i + 1, WhiteSpace)
        b == RunEnd(s, a + 2, WhiteSpace)
        c == RunEnd(s, b, AssertedTypeChars)
    IN  IF At(s, i) \notin WhiteSpace /\ a > i + 1 /\ Lit(s, a, "as") /\ b > a + 2 /\ c > b
        THEN Replaced(c, <<s[i]>>)
        ELSE NoRule

\* /(\w+)!/g  ->  '$1'
NonNullRule(s, i) ==
    LET a == RunEnd(s, i, WordChars)
    IN  IF a > i /\ At(s, a) = "!"
        THEN Replaced(a + 1, SubSeq(s, i, a - 1))
        ELSE NoRule

\* /\n{3,}/g  ->  '\n\n'
BlankLinesRule(s, i) ==
    LET a == RunEnd(s, i, {"\n"})
    IN  IF a >= i + 3 THEN Replaced(a, <<"\n", "\n">>) ELSE NoRule

\* The replacements of stripTypeScript, in the order it applies them.
StripRules ==
    <<"interface", "type alias", "import type", "{ type", ", type", "generics",
      "return type", "arrow return type", "parameters", "variable type", "as",
      "non-null", "blank lines">>

RuleAt(rule, s, i) ==
    CASE rule = "interface"         -> InterfaceRule(s, i)
      [] rule = "type alias"        -> TypeAliasRule(s, i)
      [] rule = "import type"       -> ImportTypeRule(s, i)
      [] rule = "{ type"            -> TypeKeywordRule(s, i, "{")
      [] rule = ", type"            -> TypeKeywordRule(s, i, ",")
      [] rule = "generics"          -> GenericsRule(s, i)
      [] rule = "return type"       -> ReturnTypeRule(s, i, "{")
      [] rule = "arrow return type" -> ReturnTypeRule(s, i, "=>")
      [] rule = "parameters"        -> ParamsRule(s, i)
      [] rule = "variable type"     -> VarTypeRule(s, i)
      [] rule = "as"                -> AsRule(s, i)
      [] rule = "non-null"          -> NonNullRule(s, i)
      [] rule = "blank lines"       -> BlankLinesRule(s, i)

RECURSIVE ReplaceAll(_, _, _)
\* String.prototype.replace with a global pattern: the matches are taken
\* from left to right, each search starting where the last match ended.
ReplaceAll(rule, s, i) ==
    IF i > Len(s) THEN <<>>
    ELSE LET m == RuleAt(rule, s, i)
         IN  IF m.end > i
             THEN m.out \o ReplaceAll(rule, s, m.end)
             ELSE <<s[i]>> \o ReplaceAll(rule, s, i + 1)

RECURSIVE ApplyRules(_, _)
ApplyRules(rules, s) ==
    IF rules = <<>> THEN s
    ELSE ApplyRules(Tail(rules), ReplaceAll(Head(rules), s, 1))

stripTypeScript(text) == ApplyRules(StripRules, text)

\* Pieces of source text with no static-type syntax in them: operators,
\* calls with object-literal arguments, string literals, plain groups.
PlainSegments ==
    {"a!=b", "f({a: 1, b: 2})", "'x as y'", "(a+b)", "(a!=b)", "x;", "\n\n"}

\* Pieces of source text that carry static-type syntax.
TypedSegments ==
    {"(a: number, b?: string)", "const x: number = 1;", "y as T",
     "function f<T>(a)", "(x): void {", "n!.m"}

\* The most pieces one source text is put together from.
StripParts == 2

RECURSIVE SegmentLists(_)
SegmentLists(n) ==
    IF n = 0 THEN {<<>>}
    ELSE SegmentLists(n - 1) \cup
         {Append(l, p) : l \in {m \in SegmentLists(n - 1) : Len(m) = n - 1},
                         p \in PlainSegments \cup TypedSegments}

SourceOf(parts) == Flatten([k \in 1..Len(parts) |-> CharsOf(parts[k])])

TypeFree(parts) == \A k \in 1..Len(parts) : parts[k] \in PlainSegments

InitStrip ==
    \E parts \in SegmentLists(StripParts) :
        strip = [parts |-> parts, code |-> SourceOf(parts), done |-> FALSE,
                 result |-> <<>>]

InitStripRun ==
    /\ InitStrip
    /\ IdleDeployVars /\ IdleInvokeVars /\ IdleScript /\ IdleCalls
    /\ api = <<>> /\ poll = <<>> /\ task = <<>> /\ reader = <<>>

\* generateWorkerScript: transformedCode = stripTypeScript(userCode)
StripRuns ==
    /\ ~strip.done
    /\ strip' = [strip EXCEPT !.done = TRUE, !.result = stripTypeScript(strip.code)]
    /\ UNCHANGED <<deployVars, invokeVars, script, concVars, api, poll, task, reader>>

NextStrip == StripRuns

SpecStrip == InitStripRun /\ [][NextStrip]_vars

\* The typed pieces are stripped as the replacements intend.
StripsTypedPieces ==
    (strip.done /\ Len(strip.parts) = 1) =>
        /\ strip.parts[1] = "(a: number, b?: string)" => strip.result = CharsOf("(a, b)")
        /\ strip.parts[1] = "const x: number = 1;" => strip.result = CharsOf("const x = 1;")
        /\ strip.parts[1] = "y as T" => strip.result = CharsOf("y")
        /\ strip.parts[1] = "function f<T>(a)" => strip.result = CharsOf("function f(a)")
        /\ strip.parts[1] = "(x): void {" => strip.result = CharsOf("(x) {")
        /\ strip.parts[1] = "n!.m" => strip.result = CharsOf("n.m")
        /\ strip.parts[1] = "(a+b)" => strip.result = CharsOf("(a+b)")

\* C21: a source text with no static-type syntax is returned unchanged by
\* stripTypeScript, operators, object-literal call arguments and the
\* contents of string literals included.
C21_TypeFreeTextUnchanged ==
    (strip.done /\ TypeFree(strip.parts)) => strip.result = strip.code

\* The parenthesized groups of a text whose contents hold no colon: the
\* text from an opening parenthesis to the next closing one.
ColonFreeGroups(s) ==
    {SubSeq(s, i, IndexOf(s, i + 1, ")")) :
        i \in {j \in 1..Len(s) :
                 /\ s[j] = "("
                 /\ IndexOf(s, j + 1, ")") # 0
                 /\ \A k \in (j + 1)..(IndexOf(s, j + 1, ")") - 1) :
                        s[k] \notin {":", "("}}}

\* C22: every parenthesized group of the source text whose contents hold
\* no colon appears unchanged in the output of stripTypeScript.
C22_ColonFreeGroupsUnchanged ==
    strip.done => \A g \in ColonFreeGroups(strip.code) : Includes(strip.result, g)

----------------------------------------------------------------------------
(* Claims on the decoding of the captured text and on the error channel *)

\* The buffer holds both markers and the text between them is not JSON.
CapturedNotJson(buffer) ==
    /\ ResultMatch(buffer).found
    /\ ~JSONparse(ResultMatch(buffer).group).ok

\* C23: when the text captured between the markers is not valid JSON, the
\* invocation fails with the parse error and the caller receives it as the
\* one terminal 'error' event: no 'result' event is sent and the stream does
\* not end without a terminal event.
C23_UnparsableCaptureIsError ==
    (waited /\ CapturedNotJson(stdout)) =>
        /\ outcome = Err(SyntaxError)
        /\ Delivered =>
               /\ closed
               /\ events # <<>>
               /\ events[Len(events)] = ErrorEvent(JStr(SyntaxError))
               /\ \A i \in 1..Len(events) : events[i].event # "result"
               /\ Cardinality({i \in 1..Len(events) : events[i].event = "error"}) = 1

\* The function returned undefined, the line __RESULT__undefined__END_RESULT__
\* was written and captured, and the invocation was delivered.
C23_Witness ==
    /\ Delivered
    /\ waited
    /\ behaviour.kind = "return"
    /\ CapturedNotJson(stdout)
    /\ Includes(stdout, CharsOf("__RESULT__undefined__END_RESULT__"))

\* The marker line is in the error channel's entry and in no entry of the
\* standard output.
MarkerOnStderrOnly ==
    /\ \E i \in 1..Len(received) :
          received[i].stream = "stderr" /\ IsMarkerEntry(received[i].data)
    /\ \A i \in 1..Len(received) :
          received[i].stream = "stdout" => ~IsMarkerEntry(received[i].data)

\* C27: a marker written only to the error channel is never decoded: the
\* entry is not added to the buffer, so after termination the invocation
\* fails with 'Function did not return a result', and the entry is not
\* forwarded to the caller's log stream either.
C27_StderrMarkerNotDecoded ==
    (behaviour.kind = "errmarker" /\ MarkerOnStderrOnly) =>
        /\ ~Includes(stdout, ResultMarker)
        /\ \A i \in 1..Len(forwarded) : ~IsMarkerEntry(forwarded[i].data)
        /\ \A i \in 1..Len(events) : ~Includes(events[i].message, ResultMarker)
        /\ waited => outcome = Err(NoResultError)
        /\ (waited /\ Delivered) =>
               events = <<ErrorEvent(JStr(NoResultError))>>

\* The marker line came in on the error channel, the process has terminated
\* and the failed invocation was delivered.
C27_Witness ==
    /\ behaviour.kind = "errmarker"
    /\ MarkerOnStderrOnly
    /\ waited
    /\ Delivered
    /\ outcome = Err(NoResultError)

----------------------------------------------------------------------------
(* The worker routes: GET and DELETE /api/workers/:id and
   POST /api/workers/:id/invoke/:fn over one stored worker record *)

\* The last instant of the clock and the most requests of one run.
MaxTime == 3
MaxRequests == 3

\* One day (1000 * 60 * 60 * 24 ms) in the clock's unit of twelve hours.
DayLength == 2

\* A timestamp column: <<>> is null, <<t>> the instant t.
NullTime == <<>>
TimeAt(t) == <<t>>

WorkerStatuses == {"creating", "ready", "error", "expired"}
FunctionLists  == {<<"a">>, <<"a", "b">>}
RequestedNames == {"a", "b", "zz"}

\* db.getWorker(id) found no row.
NoWorker ==
    [found |-> FALSE, status |-> "", functions |-> <<>>,
     snapshot_expires_at |-> NullTime, last_invoked_at |-> NullTime]

StoredWorkers ==
    {[found |-> TRUE, status |-> s, functions |-> f,
      snapshot_expires_at |-> e, last_invoked_at |-> NullTime] :
        s \in WorkerStatuses, f \in FunctionLists,
        e \in {NullTime, TimeAt(1), TimeAt(2)}}

\* Math.ceil(a / b) for b > 0
Ceil(a, b) == -((-a) \div b)

\* calculateExpiresInDays at the instant now: null for no expiry time.
calculateExpiresInDays(expiresAt, now) ==
    IF expiresAt = NullTime THEN NullTime
    ELSE TimeAt(Max({0, Ceil(expiresAt[1] - now, DayLength)}))

\* UPDATE workers SET status = 'expired'
updateWorkerExpired(w) == [w EXCEPT !.status = "expired"]

\* UPDATE workers SET last_invoked_at = NOW()
updateLastInvoked(w, now) == [w EXCEPT !.last_invoked_at = TimeAt(now)]

\* What a request answered: the HTTP status, the worker status in the body
\* of a GET, and whether the request went on to Sandbox.create.
Response(op, fn, httpStatus, workerStatus, sandboxed) ==
    [op |-> op, fn |-> fn, code |-> httpStatus, status |-> workerStatus,
     created |-> sandboxed]

InitApi ==
    \E w \in StoredWorkers \cup {NoWorker} :
        api = [worker |-> w, now |-> 0, n |-> 0, sandboxes |-> 0,
               last |-> Response("", "", 0, "", FALSE)]

InitApiRun ==
    /\ InitApi
    /\ IdleDeployVars /\ IdleInvokeVars /\ IdleScript /\ IdleCalls
    /\ strip = <<>> /\ poll = <<>> /\ task = <<>> /\ reader = <<>>

ApiFrame == UNCHANGED <<deployVars, invokeVars, script, concVars, strip, poll, task, reader>>

\* The auto-expiry as if it did not look at the stored status.
GetWorkerExpiresAnyStatus ==
    /\ api.n < MaxRequests
    /\ LET worker == api.worker
           expiresInDays == calculateExpiresInDays(worker.snapshot_expires_at, api.now)
       IN  IF ~worker.found
           THEN api' = [api EXCEPT !.n = @ + 1, !.last = Response("GET", "", 404, "", FALSE)]
           ELSE IF expiresInDays # NullTime /\ expiresInDays[1] <= 0
           THEN api' = [api EXCEPT !.n = @ + 1,
                                   !.worker = updateWorkerExpired(worker),
                                   !.last = Response("GET", "", 200, "expired", FALSE)]
           ELSE api' = [api EXCEPT !.n = @ + 1,
                                   !.last = Response("GET", "", 200, worker.status, FALSE)]
    /\ ApiFrame

\* GET /api/workers/:id
GetWorker ==
    /\ api.n < MaxRequests
    /\ LET worker == api.worker
           expiresInDays == calculateExpiresInDays(worker.snapshot_expires_at, api.now)
       IN  IF ~worker.found
           THEN api' = [api EXCEPT !.n = @ + 1, !.last = Response("GET", "", 404, "", FALSE)]
           ELSE IF worker.status = "ready" /\ expiresInDays # NullTime
                   /\ expiresInDays[1] <= 0
           THEN api' = [api EXCEPT !.n = @ + 1,
                                   !.worker = updateWorkerExpired(worker),
                                   !.last = Response("GET", "", 200, "expired", FALSE)]
           ELSE api' = [api EXCEPT !.n = @ + 1,
                                   !.last = Response("GET", "", 200, worker.status, FALSE)]
    /\ ApiFrame

\* DELETE /api/workers/:id
DeleteWorker ==
    /\ api.n < MaxRequests
    /\ IF api.worker.found
       THEN api' = [api EXCEPT !.n = @ + 1, !.worker = NoWorker,
                               !.last = Response("DELETE", "", 200, "", FALSE)]
       ELSE api' = [api EXCEPT !.n = @ + 1, !.last = Response("DELETE", "", 404, "", FALSE)]
    /\ ApiFrame

\* The invoke route as if it tested only for 'expired'.
PostInvokeNoReadyCheck ==
    /\ api.n < MaxRequests
    /\ \E fn \in RequestedNames, recorded \in BOOLEAN :
          LET worker == api.worker
              Reject(httpStatus) ==
                  api' = [api EXCEPT !.n = @ + 1,
                                     !.last = Response("POST", fn, httpStatus, "", FALSE)]
          IN  IF ~worker.found THEN Reject(404)
              ELSE IF worker.status = "expired" THEN Reject(410)
              ELSE IF fn \notin Range(worker.functions) THEN Reject(404)
              ELSE api' = [api EXCEPT
                              !.n = @ + 1,
                              !.worker = IF recorded
                                         THEN updateLastInvoked(worker, api.now)
                                         ELSE worker,
                              !.sandboxes = @ + 1,
                              !.last = Response("POST", fn, 200, "", TRUE)]
    /\ ApiFrame

\* POST /api/workers/:id/invoke/:fn.  Past the four checks the route calls
\* db.updateLastInvoked without awaiting it (recorded: whether the update
\* went through) and goes on to the invocation, which calls Sandbox.create.
PostInvoke ==
    /\ api.n < MaxRequests
    /\ \E fn \in RequestedNames, recorded \in BOOLEAN :
          LET worker == api.worker
              Reject(httpStatus) ==
                  api' = [api EXCEPT !.n = @ + 1,
                                     !.last = Response("POST", fn, httpStatus, "", FALSE)]
          IN  IF ~worker.found THEN Reject(404)
              ELSE IF worker.status = "expired" THEN Reject(410)
              ELSE IF worker.status # "ready" THEN Reject(400)
              ELSE IF fn \notin Range(worker.functions) THEN Reject(404)
              ELSE api' = [api EXCEPT
                              !.n = @ + 1,
                              !.worker = IF recorded
                                         THEN updateLastInvoked(worker, api.now)
                                         ELSE worker,
                              !.sandboxes = @ + 1,
                              !.last = Response("POST", fn, 200, "", TRUE)]
    /\ ApiFrame

\* Time passes.
ClockTicks ==
    /\ api.now < MaxTime
    /\ api' = [api EXCEPT !.now = @ + 1]
    /\ ApiFrame

NextApi == GetWorker \/ DeleteWorker \/ PostInvoke \/ ClockTicks

SpecApi == InitApiRun /\ [][NextApi]_vars

\* A request of the kind op was answered in this step.
Answered(op) == api'.n = api.n + 1 /\ api'.last.op = op

\* The stored expiry time has been reached.
ExpiryReached(a) ==
    /\ a.worker.found
    /\ a.worker.snapshot_expires_at # NullTime
    /\ a.worker.snapshot_expires_at[1] <= a.now

\* C24: the invoke route goes on to create a sandbox only when the worker
\* record exists, its status is 'ready' and the function name is in the
\* stored list; otherwise it answers 404 (no record), 410 (expired), 400
\* (any other status that is not ready) or 404 (unknown name), creates no
\* sandbox and leaves the last-invoked timestamp alone.
C24_InvokeGuards ==
    [][Answered("POST") =>
         LET w  == api.worker
             ok == w.found /\ w.status = "ready"
         IN  /\ api'.last.created <=> api'.sandboxes = api.sandboxes + 1
             /\ api'.last.created =>
                    /\ ok
                    /\ api'.last.code = 200
                    /\ api'.last.fn \in Range(w.functions)
             /\ ~api'.last.created =>
                    /\ api'.sandboxes = api.sandboxes
                    /\ api'.worker = api.worker
             /\ ~w.found => api'.last = Response("POST", api'.last.fn, 404, "", FALSE)
             /\ (w.found /\ w.status = "expired") =>
                    api'.last = Response("POST", api'.last.fn, 410, "", FALSE)
             /\ (w.found /\ w.status \in {"creating", "error"}) =>
                    api'.last = Response("POST", api'.last.fn, 400, "", FALSE)
             /\ (ok /\ api'.last.fn \notin Range(w.functions)) =>
                    api'.last = Response("POST", api'.last.fn, 404, "", FALSE)
             /\ (ok /\ api'.last.fn \in Range(w.functions)) => api'.last.created
      ]_vars

\* A worker was invoked while ready, a GET then marked it expired, and the
\* next invoke request was answered 410 without a second sandbox.
C24_Witness ==
    /\ api.last.op = "POST"
    /\ api.last.code = 410
    /\ api.worker.status = "expired"
    /\ api.worker.last_invoked_at # NullTime
    /\ api.sandboxes = 1

\* C25: once the snapshot's expiry time has passed, every later invoke
\* request is answered 410 and creates no sandbox, whether or not a GET of
\* the worker came in between.
C25_InvokeAfterExpiryRejected ==
    [][(Answered("POST") /\ ExpiryReached(api)
          /\ api.worker.status \in {"ready", "expired"}) =>
         /\ api'.last.code = 410
         /\ api'.sandboxes = api.sandboxes
      ]_vars

\* C26: a GET changes the stored status only from 'ready' to 'expired' and
\* only when the expiry time has been reached; a worker that is 'creating',
\* 'error' or 'expired', or has no expiry time, is returned as stored, and
\* no request changes 'expired' back to 'ready'.
C26_ExpiryOnlyFromReady ==
    [][/\ Answered("GET") =>
            /\ api'.worker.status # api.worker.status =>
                   /\ api.worker.status = "ready"
                   /\ ExpiryReached(api)
                   /\ api'.worker.status = "expired"
            /\ (api.worker.found /\ (api.worker.status # "ready" \/ ~ExpiryReached(api))) =>
                   /\ api'.worker = api.worker
                   /\ api'.last = Response("GET", "", 200, api.worker.status, FALSE)
       /\ (api.worker.found /\ api.worker.status = "expired") =>
            api'.worker.status # "ready"
      ]_vars

\* A GET found a worker in error whose expiry time had passed and returned
\* it as stored.
C26_Witness ==
    /\ api.last = Response("GET", "", 200, "error", FALSE)
    /\ ExpiryReached(api)

----------------------------------------------------------------------------
(* VercelClient.waitForDeployment: poll the deployment until it is ready,
   has failed, or maxAttempts polls are used up *)

\* The largest maxAttempts a call is made with.
MaxAttempts == 3

ReadyStates == {"QUEUED", "BUILDING", "ERROR", "INITIALIZING", "READY", "CANCELED"}
FailedStates == {"ERROR", "CANCELED"}
PendingStates == ReadyStates \ (FailedStates \cup {"READY"})

\* What getDeployment resolves with: the state and deployment.error?.message
\* ("" when there is none).
Deployments ==
    {[readyState |-> s, error |-> m] :
        s \in ReadyStates, m \in {"", "build broke"}}

TimedOutError == "Deployment timed out"
RequestError  == "Vercel API error: 500 - Internal Server Error"

\* `Deployment failed: ${deployment.error?.message || deployment.readyState}`
DeploymentFailedError(d) ==
    "Deployment failed: " \o (IF d.error # "" THEN d.error ELSE d.readyState)

InitPoll ==
    \E m \in 0..MaxAttempts :
        poll = [maxAttempts |-> m, i |-> 0, pc |-> "test", seen |-> <<>>,
                outcome |-> None]

InitPollRun ==
    /\ InitPoll
    /\ IdleDeployVars /\ IdleInvokeVars /\ IdleScript /\ IdleCalls
    /\ strip = <<>> /\ api = <<>> /\ task = <<>> /\ reader = <<>>

PollFrame == UNCHANGED <<deployVars, invokeVars, script, concVars, strip, api, task, reader>>

\* The loop test as if the loop had no bound.
LoopTestNoBound ==
    /\ poll.pc = "test"
    /\ poll' = [poll EXCEPT !.pc = IF poll.i <= poll.maxAttempts THEN "poll" ELSE "failed",
                            !.outcome = IF poll.i <= poll.maxAttempts THEN None
                                        ELSE Err(TimedOutError)]
    /\ PollFrame

\* for (let i = 0; i < maxAttempts; i++) ... throw new Error('Deployment timed out')
LoopTest ==
    /\ poll.pc = "test"
    /\ IF poll.i < poll.maxAttempts
       THEN poll' = [poll EXCEPT !.pc = "poll"]
       ELSE poll' = [poll EXCEPT !.pc = "failed", !.outcome = Err(TimedOutError)]
    /\ PollFrame

\* await this.getDeployment(deploymentId) resolves, and the two tests on
\* readyState.
GetDeploymentResolves ==
    /\ poll.pc = "poll"
    /\ \E d \in Deployments :
          poll' = [poll EXCEPT
                      !.seen = Append(@, d.readyState),
                      !.pc = IF d.readyState = "READY" THEN "returned"
                             ELSE IF d.readyState \in FailedStates THEN "failed"
                             ELSE "sleep",
                      !.outcome = IF d.readyState = "READY" THEN Ok(JStr("READY"))
                                  ELSE IF d.readyState \in FailedStates
                                  THEN Err(DeploymentFailedError(d))
                                  ELSE None]
    /\ PollFrame

\* await this.getDeployment(deploymentId) rejects: request() threw.
GetDeploymentRejects ==
    /\ poll.pc = "poll"
    /\ poll' = [poll EXCEPT !.seen = Append(@, "no response"),
                            !.pc = "failed",
                            !.outcome = Err(RequestError)]
    /\ PollFrame

\* await new Promise(resolve => setTimeout(resolve, intervalMs)), then i++
IntervalElapses ==
    /\ poll.pc = "sleep"
    /\ poll' = [poll EXCEPT !.i = @ + 1, !.pc = "test"]
    /\ PollFrame

NextPoll == LoopTest \/ GetDeploymentResolves \/ GetDeploymentRejects \/ IntervalElapses

SpecPoll == InitPollRun /\ [][NextPoll]_vars

\* Every request is answered and every timer fires.
SpecPollLive == InitPollRun /\ [][NextPoll]_vars /\ WF_vars(NextPoll)

PollSettled == poll.pc \in {"returned", "failed"}

\* The states the polls before the last one reported.
EarlierPolls == {poll.seen[k] : k \in 1..(Len(poll.seen) - 1)}

\* C28: waitForDeployment ends after at most maxAttempts polls: it returns
\* only on a poll that reported READY, fails on the first poll that reports
\* ERROR or CANCELED, and fails with 'Deployment timed out' when maxAttempts
\* polls have all reported another state.
C28_WaitForDeploymentBounded ==
    /\ [](/\ Len(poll.seen) <= poll.maxAttempts
          /\ ~PollSettled => Range(poll.seen) \subseteq PendingStates
          /\ PollSettled => EarlierPolls \subseteq PendingStates
          /\ poll.pc = "returned" =>
                 poll.seen # <<>> /\ poll.seen[Len(poll.seen)] = "READY"
          /\ (poll.seen # <<>> /\ poll.seen[Len(poll.seen)] \in FailedStates) =>
                 /\ poll.pc = "failed"
                 /\ poll.outcome.message \in {DeploymentFailedError(d) : d \in Deployments}
          /\ (poll.pc = "failed" /\ poll.outcome = Err(TimedOutError)) =>
                 /\ Len(poll.seen) = poll.maxAttempts
                 /\ Range(poll.seen) \subseteq PendingStates
          /\ (PollSettled /\ Len(poll.seen) = poll.maxAttempts
                /\ Range(poll.seen) \subseteq PendingStates) =>
                 poll.outcome = Err(TimedOutError))
    /\ <>PollSettled

\* Every one of maxAttempts polls reported a pending state and the call
\* failed with the timeout.
C28_Witness ==
    /\ poll.maxAttempts = MaxAttempts
    /\ Len(poll.seen) = MaxAttempts
    /\ poll.outcome = Err(TimedOutError)

----------------------------------------------------------------------------
(* deployWorkerAsync: the background deployment of one worker and its
   writes to the worker's row through db.updateWorker *)

\* An optional value: <<>> is undefined, <<v>> the value v.
Undefined == <<>>
Some(v) == <<v>>
\* A defined string that is not empty.
Truthy(x) == x # Undefined /\ x[1] # ""

NoData ==
    [vercel_project_id |-> Undefined, vercel_deployment_id |-> Undefined,
     vercel_deployment_url |-> Undefined, functions |-> Undefined,
     status |-> Undefined, error_message |-> Undefined]

\* db.updateWorker as if it had no statement for the 'error' update.
updateWorkerNoErrorBranch(w, data) ==
    IF data = NoData THEN w
    ELSE IF data.status = Some("ready") /\ Truthy(data.vercel_deployment_url)
            /\ data.functions # Undefined
    THEN [w EXCEPT !.vercel_deployment_url = data.vercel_deployment_url[1],
                   !.functions = data.functions[1],
                   !.status = "ready"]
    ELSE IF Truthy(data.vercel_project_id)
    THEN [w EXCEPT !.vercel_project_id = data.vercel_project_id[1]]
    ELSE IF Truthy(data.vercel_deployment_id)
    THEN [w EXCEPT !.vercel_deployment_id = data.vercel_deployment_id[1]]
    ELSE w

\* db.updateWorker: the row after the one UPDATE statement the data selects
\* (none of them: the row as it is).
updateWorker(w, data) ==
    IF data = NoData THEN w
    ELSE IF data.status = Some("ready") /\ Truthy(data.vercel_deployment_url)
            /\ data.functions # Undefined
    THEN [w EXCEPT !.vercel_deployment_url = data.vercel_deployment_url[1],
                   !.functions = data.functions[1],
                   !.status = "ready"]
    ELSE IF data.status = Some("error") /\ Truthy(data.error_message)
    THEN [w EXCEPT !.status = "error", !.error_message = data.error_message[1]]
    ELSE IF Truthy(data.vercel_project_id)
    THEN [w EXCEPT !.vercel_project_id = data.vercel_project_id[1]]
    ELSE IF Truthy(data.vercel_deployment_id)
    THEN [w EXCEPT !.vercel_deployment_id = data.vercel_deployment_id[1]]
    ELSE w

ProjectIds == {"prj_1", "prj_2"}
CreatedDeployments ==
    {[id |-> "dpl_1", url |-> "one.vercel.app"], [id |-> "dpl_2", url |-> "two.vercel.app"]}
DbError == "connection refused"

\* The errors waitForDeployment ends with.
WaitErrors ==
    {DeploymentFailedError(d) : d \in {e \in Deployments : e.readyState \in FailedStates}}
        \cup {TimedOutError, RequestError}

\* db.createWorker: the row is inserted with status 'building'.
BuildingWorker ==
    [status |-> "building", error_message |-> "", vercel_project_id |-> "",
     vercel_deployment_id |-> "", vercel_deployment_url |-> "", functions |-> <<>>]

InitTask ==
    \E f \in FunctionLists :
        task = [pc |-> "createProject", functions |-> f, worker |-> BuildingWorker,
                project |-> "", deployment |-> [id |-> "", url |-> ""],
                ready |-> FALSE, failure |-> "", writes |-> <<>>]

InitTaskRun ==
    /\ InitTask
    /\ IdleDeployVars /\ IdleInvokeVars /\ IdleScript /\ IdleCalls
    /\ strip = <<>> /\ api = <<>> /\ poll = <<>> /\ reader = <<>>

TaskFrame == UNCHANGED <<deployVars, invokeVars, script, concVars, strip, api, poll, reader>>

\* The row and the record of status writes after db.updateWorker(data).
Written(data) ==
    [task EXCEPT !.worker = updateWorker(task.worker, data),
                 !.writes = IF updateWorker(task.worker, data).status # task.worker.status
                            THEN Append(@, updateWorker(task.worker, data).status)
                            ELSE @]

\* await vercel.createProject(projectName)
ProjectCreated ==
    /\ task.pc = "createProject"
    /\ \E id \in ProjectIds :
          task' = [task EXCEPT !.project = id, !.pc = "updateProject"]
    /\ TaskFrame

\* await vercel.updateProject(project.id, { ssoProtection: null })
ProjectUpdated ==
    /\ task.pc = "updateProject"
    /\ task' = [task EXCEPT !.pc = "saveProject"]
    /\ TaskFrame

\* await db.updateWorker(workerId, { vercel_project_id: project.id })
ProjectIdSaved ==
    /\ task.pc = "saveProject"
    /\ task' = [Written([NoData EXCEPT !.vercel_project_id = Some(task.project)])
                  EXCEPT !.pc = "createDeployment"]
    /\ TaskFrame

\* await vercel.createDeployment(project.id, workerFiles.files)
DeploymentCreated ==
    /\ task.pc = "createDeployment"
    /\ \E d \in CreatedDeployments :
          task' = [task EXCEPT !.deployment = d, !.pc = "saveDeployment"]
    /\ TaskFrame

\* await db.updateWorker(workerId, { vercel_deployment_id: deployment.id })
DeploymentIdSaved ==
    /\ task.pc = "saveDeployment"
    /\ task' = [Written([NoData EXCEPT !.vercel_deployment_id = Some(task.deployment.id)])
                  EXCEPT !.pc = "wait"]
    /\ TaskFrame

\* await vercel.waitForDeployment(deployment.id) returns the ready deployment
DeploymentReady ==
    /\ task.pc = "wait"
    /\ task' = [task EXCEPT !.ready = TRUE, !.pc = "saveReady"]
    /\ TaskFrame

\* await db.updateWorker(workerId, { vercel_deployment_url, functions, status: 'ready' })
WorkerMarkedReady ==
    /\ task.pc = "saveReady"
    /\ task' = [Written([NoData EXCEPT
                            !.vercel_deployment_url = Some("https://" \o task.deployment.url),
                            !.functions = Some(task.functions),
                            !.status = Some("ready")])
                  EXCEPT !.pc = "done"]
    /\ TaskFrame

\* A request to the Vercel API throws.
VercelRequestFails ==
    /\ task.pc \in {"createProject", "updateProject", "createDeployment"}
    /\ task' = [task EXCEPT !.failure = RequestError, !.pc = "catch"]
    /\ TaskFrame

\* waitForDeployment throws.
DeploymentWaitFails ==
    /\ task.pc = "wait"
    /\ \E m \in WaitErrors :
          task' = [task EXCEPT !.failure = m, !.pc = "catch"]
    /\ TaskFrame

\* db.updateWorker throws inside the try block.
DbUpdateFails ==
    /\ task.pc \in {"saveProject", "saveDeployment", "saveReady"}
    /\ task' = [task EXCEPT !.failure = DbError, !.pc = "catch"]
    /\ TaskFrame

\* catch: await db.updateWorker(workerId, { status: 'error', error_message }).
\* This update is taken to go through.
ErrorRecorded ==
    /\ task.pc = "catch"
    /\ task' = [Written([NoData EXCEPT !.status = Some("error"),
                                       !.error_message = Some(task.failure)])
                  EXCEPT !.pc = "done"]
    /\ TaskFrame

NextTask ==
    \/ ProjectCreated \/ ProjectUpdated \/ ProjectIdSaved \/ DeploymentCreated
    \/ DeploymentIdSaved \/ DeploymentReady \/ WorkerMarkedReady
    \/ VercelRequestFails \/ DeploymentWaitFails \/ DbUpdateFails \/ ErrorRecorded

SpecTask == InitTaskRun /\ [][NextTask]_vars

----------------------------------------------------------------------------
(* The client's reader of the event stream (FunctionInvoker) and
   formatSSEEvent, over every division of the stream into chunks *)

\* The most chunks one response body arrives in.
MaxPieces == 2

\* `event: ${event}\ndata: ${JSON.stringify(data)}\n\n`
formatSSEEvent(event, data) ==
    CharsOf("event: ") \o CharsOf(event) \o NewLine
        \o CharsOf("data: ") \o JSONstringify(data) \o NewLine \o NewLine

SentEvent(event, data) == [type |-> event, data |-> data]

LogData    == JObj(<<[k |-> "message", v |-> JStr("a")]>>)
ResultData == JObj(<<[k |-> "result", v |-> JNum(1)]>>)
ErrorData  == JObj(<<[k |-> "error", v |-> JStr("boom")]>>)
EventDataValues == {LogData, ResultData, ErrorData}

\* The events of one invocation: log events, then one terminal event.
EventStreams ==
    {<<SentEvent("result", ResultData)>>,
     <<SentEvent("log", LogData), SentEvent("result", ResultData)>>,
     <<SentEvent("log", LogData), SentEvent("error", ErrorData)>>}

StreamText(sent) ==
    Flatten([k \in 1..Len(sent) |-> formatSSEEvent(sent[k].type, sent[k].data)])

RECURSIVE ChunkLists(_, _)
\* The ways a text arrives in at most n chunks, none of them empty.
ChunkLists(text, n) ==
    IF n <= 1 THEN {<<text>>}
    ELSE {<<text>>} \cup
         UNION {{<<SubSeq(text, 1, c)>> \o rest :
                    rest \in ChunkLists(SubSeq(text, c + 1, Len(text)), n - 1)} :
                c \in 1..(Len(text) - 1)}

\* JSON.parse(eventData) over the data the route sends
ParseEventData(text) ==
    LET vs == {v \in EventDataValues : JSONstringify(v) = text}
    IN  IF vs = {} THEN JSONparse(text)
        ELSE [ok |-> TRUE, value |-> CHOOSE v \in vs : TRUE]

RECURSIVE ProcessLines(_, _, _, _)
\* for (const line of lines) { ... }: the events handled from the k-th line
\* on, with the event type and data collected so far, and the error thrown
\* by an 'error' event ("" for none), which ends the loop.
ProcessLines(lines, k, eventType, eventData) ==
    IF k > Len(lines) THEN [handled |-> <<>>, thrown |-> <<>>]
    ELSE LET line == lines[k]
         IN  IF Lit(line, 1, "event: ")
             THEN ProcessLines(lines, k + 1, SubSeq(line, 8, Len(line)), eventData)
             ELSE IF Lit(line, 1, "data: ")
             THEN ProcessLines(lines, k + 1, eventType, SubSeq(line, 7, Len(line)))
             ELSE IF line = <<>> /\ eventType # <<>> /\ eventData # <<>>
             THEN LET parsed == ParseEventData(eventData)
                      rest   == ProcessLines(lines, k + 1, <<>>, <<>>)
                  IN  IF ~parsed.ok THEN rest
                      ELSE IF eventType = CharsOf("error")
                      THEN [handled |-> <<SentEvent("error", parsed.value)>>,
                            thrown  |-> <<Field(parsed.value, "error")>>]
                      ELSE IF eventType \in {CharsOf("log"), CharsOf("result")}
                      THEN [handled |-> <<SentEvent(IF eventType = CharsOf("log")
                                                    THEN "log" ELSE "result",
                                                    parsed.value)>>
                                          \o rest.handled,
                            thrown  |-> rest.thrown]
                      ELSE rest
             ELSE ProcessLines(lines, k + 1, eventType, eventData)

InitReader ==
    \E sent \in EventStreams :
      \E chunks \in ChunkLists(StreamText(sent), MaxPieces) :
        reader = [sent |-> sent, chunks |-> chunks, buffer |-> <<>>,
                  handled |-> <<>>, pc |-> "reading", error |-> <<>>]

InitReaderRun ==
    /\ InitReader
    /\ IdleDeployVars /\ IdleInvokeVars /\ IdleScript /\ IdleCalls
    /\ strip = <<>> /\ api = <<>> /\ poll = <<>> /\ task = <<>>

ReaderFrame == UNCHANGED <<deployVars, invokeVars, script, concVars, strip, api, poll, task>>

\* One pass of while (true): reader.read() resolves with a chunk, the buffer
\* is split into lines, the last piece is kept and the lines are processed
\* with eventType and eventData starting empty.
ChunkRead ==
    /\ reader.pc = "reading"
    /\ reader.chunks # <<>>
    /\ LET text  == reader.buffer \o Head(reader.chunks)
           parts == Split(text, "\n")
           lines == SubSeq(parts, 1, Len(parts) - 1)
           out   == ProcessLines(lines, 1, <<>>, <<>>)
       IN  reader' = [reader EXCEPT
                         !.chunks  = Tail(@),
                         !.buffer  = parts[Len(parts)],
                         !.handled = @ \o out.handled,
                         !.pc      = IF out.thrown # <<>> THEN "failed" ELSE "reading",
                         !.error   = out.thrown]
    /\ ReaderFrame

\* reader.read() resolves with done: break.
StreamEnds ==
    /\ reader.pc = "reading"
    /\ reader.chunks = <<>>
    /\ reader' = [reader EXCEPT !.pc = "done"]
    /\ ReaderFrame

NextReader == ChunkRead \/ StreamEnds

SpecReader == InitReaderRun /\ [][NextReader]_vars

\* C30: for every division of the stream into chunks the client handles
\* every event the route sent exactly once and in order, so that the
\* terminal event is never lost.
C30_EveryEventHandledOnce ==
    reader.pc # "reading" => reader.handled = reader.sent

====
